---- MODULE Spec2Model ----
(***************************************************************************)
(* A model of the build_html document-tree builder: the Attributes         *)
(* collection, the leaf content nodes, Container, HtmlElement, Table and   *)
(* HtmlPage, with their rendering to markup.                               *)
(*                                                                         *)
(* A Rust String is modelled as a sequence of one-character strings, so    *)
(* that concatenation, comparison and search are the real operations on    *)
(* characters and not operations on opaque tokens.                         *)
(***************************************************************************)
EXTENDS Integers, Sequences, FiniteSets, TLC

VARIABLES
    focus,        \* which object this run of the program builds
    attrs,        \* attributes.rs: an Attributes value under construction
    attrs2,       \* a second Attributes value, built on its own
    attrPairs,    \* ghost: the pair sequence attrs was built from
    attrPairs2,   \* ghost: the pair sequence attrs2 was built from
    attrsOut,     \* the string attrs was formatted to since it was built
    attrs2Out,    \* the string attrs2 was formatted to since it was built
    cont,         \* container.rs: the Container under construction
    contLog,      \* ghost: rendering of each child, taken when it was added
    contAttrLog,  \* ghost: the argument of the last with_attributes call
    contAttrPrev, \* ghost: the argument of the with_attributes call before it
    contOut,      \* result of to_html_string on cont since its last change
    tab,          \* table.rs: the Table under construction
    tabAttrLast,  \* ghost: per region, the argument of the last attribute call
    tabOut,       \* result of to_html_string on tab since its last change
    tabSource,    \* ghost: the argument of Table::from when tab is its result
    page,         \* html_page/mod.rs: the HtmlPage under construction
    pageHeadLog,  \* ghost: rendering of each node added to the head, in order
    pageBodyLog,  \* ghost: rendering of each node added to the body, in order
    pageOut,      \* result of to_html_string on page since its last change
    nodePage,     \* html_page.rs: the HtmlPage built by the same additions
    elem,         \* elements.rs: the HtmlElement under construction
    elemOut       \* result of to_html_string on elem since its last change

vars == <<focus, attrs, attrs2, attrPairs, attrPairs2, attrsOut, attrs2Out,
          cont, contLog, contAttrLog, contAttrPrev, contOut,
          tab, tabAttrLast, tabOut, tabSource, page, pageHeadLog, pageBodyLog, pageOut,
          nodePage, elem, elemOut>>

(***************************************************************************)
(* Bounds of the model.                                                    *)
(***************************************************************************)
MaxChildren == 2
MaxRows == 2
MaxAttrPairs == 2
MaxPageAdds == 2

\* Option<T>: a sequence of length 0 (None) or 1 (Some)
None == <<>>

Some(x) == <<x>>

(***************************************************************************)
(* Strings.                                                                *)
(***************************************************************************)
\* The characters of the model in ascending order of their byte value.
AsciiOrder ==
    << " ", "!", "\"", "&", "-", ".", "/",
       "0", "1", "2", "3", "4", "5", "6", "7", "8", "9",
       ":", "<", "=", ">",
       "A", "B", "C", "D", "E", "F", "G", "H", "I", "J", "K", "L", "M",
       "N", "O", "P", "Q", "R", "S", "T", "U", "V", "W", "X", "Y", "Z",
       "a", "b", "c", "d", "e", "f", "g", "h", "i", "j", "k", "l", "m",
       "n", "o", "p", "q", "r", "s", "t", "u", "v", "w", "x", "y", "z" >>

Ord(c) == CHOOSE i \in 1..Len(AsciiOrder) : AsciiOrder[i] = c

\* a < b for two strings: the std ordering of String (bytewise, lexicographic,
\* a proper prefix first).
StrLess(a, b) ==
    \E i \in 1..Len(b) :
        /\ Len(a) >= i - 1
        /\ \A j \in 1..(i - 1) : a[j] = b[j]
        /\ (Len(a) = i - 1 \/ Ord(a[i]) < Ord(b[i]))

RECURSIVE Concat(_)
\* fold(String::new(), |acc, next| acc + &next) over a sequence of strings
Concat(ss) ==
    IF ss = <<>> THEN <<>> ELSE Head(ss) \o Concat(Tail(ss))

\* Vec<String>::sort(): the ascending arrangement (stable).
SortInsert(s, sorted) ==
    LET k == Cardinality({i \in 1..Len(sorted) : ~ StrLess(s, sorted[i])})
    IN  SubSeq(sorted, 1, k) \o <<s>> \o SubSeq(sorted, k + 1, Len(sorted))

RECURSIVE SortStrings(_)
SortStrings(v) ==
    IF v = <<>> THEN <<>>
    ELSE SortInsert(v[Len(v)], SortStrings(SubSeq(v, 1, Len(v) - 1)))

Digits == <<"0", "1", "2", "3", "4", "5", "6", "7", "8", "9">>

RECURSIVE U8ToString(_)
\* Display of an unsigned integer: its decimal digits, no padding.
U8ToString(n) ==
    IF n < 10 THEN <<Digits[n + 1]>>
    ELSE U8ToString(n \div 10) \o <<Digits[(n % 10) + 1]>>

\* s occurs in t at position i
OccursAt(s, t, i) ==
    /\ i + Len(s) - 1 <= Len(t)
    /\ \A j \in 1..Len(s) : t[i + j - 1] = s[j]

\* number of occurrences of the non-empty string s in t
Count(s, t) == Cardinality({i \in 1..Len(t) : OccursAt(s, t, i)})

Contains(s, t) == \E i \in 1..Len(t) : OccursAt(s, t, i)

StartsWith(t, s) == Len(s) <= Len(t) /\ SubSeq(t, 1, Len(s)) = s

EndsWith(t, s) ==
    Len(s) <= Len(t) /\ SubSeq(t, Len(t) - Len(s) + 1, Len(t)) = s

(***************************************************************************)
(* attributes.rs: Attributes, a HashMap<String, String>.  The map is a     *)
(* function from names to values; iter is the order in which the hash map  *)
(* happens to iterate, which the std library leaves unspecified.           *)
(***************************************************************************)
Perms(S) ==
    {p \in [1..Cardinality(S) -> S] : \A k \in S : \E i \in DOMAIN p : p[i] = k}

EmptyMap == [k \in {} |-> <<>>]

AttributesDefault == [map |-> EmptyMap, iter |-> <<>>]

AttributesEmpty == AttributesDefault

RECURSIVE CollectMapKeepFirst(_)
CollectMapKeepFirst(pairs) ==
    IF pairs = <<>> THEN EmptyMap
    ELSE LET front == CollectMapKeepFirst(SubSeq(pairs, 1, Len(pairs) - 1))
             last == pairs[Len(pairs)]
         IN  [k \in (DOMAIN front) \cup {last[1]} |->
                 IF k \in DOMAIN front THEN front[k] ELSE last[2]]

RECURSIVE CollectMap(_)
\* Iterator<(K, V)>::collect::<HashMap>: insert pair after pair, a later
\* pair replacing an earlier one of the same name.
CollectMap(pairs) ==
    IF pairs = <<>> THEN EmptyMap
    ELSE LET front == CollectMap(SubSeq(pairs, 1, Len(pairs) - 1))
             last == pairs[Len(pairs)]
         IN  [k \in (DOMAIN front) \cup {last[1]} |->
                 IF k = last[1] THEN last[2] ELSE front[k]]

\* The Attributes values that From can return for the given pairs: one map,
\* in any iteration order.
AttributesFrom(pairs) ==
    LET m == CollectMap(pairs)
    IN  {[map |-> m, iter |-> p] : p \in Perms(DOMAIN m)}

\* Attributes::from on any sequence of pairs, as Container::with_attributes
\* and the *_attr helpers call it.
AttributesFromIter(pairs) == AttributesFrom(pairs)

AttrFragmentSpaceAfter(key, value) ==
    key \o <<"=", "\"">> \o value \o <<"\"", " ">>

\* format!(r#" {}="{}""#, key, value)
AttrFragment(key, value) == <<" ">> \o key \o <<"=", "\"">> \o value \o <<"\"">>

AttributesDisplayUnsorted(a) ==
    Concat([i \in 1..Len(a.iter) |-> AttrFragment(a.iter[i], a.map[a.iter[i]])])

\* impl Display for Attributes
AttributesDisplay(a) ==
    LET attribute_tags ==
            [i \in 1..Len(a.iter) |-> AttrFragment(a.iter[i], a.map[a.iter[i]])]
    IN  Concat(SortStrings(attribute_tags))

(***************************************************************************)
(* content.rs: the leaf content nodes.                                     *)
(***************************************************************************)
\* a header whose level is brought into 1..6
HeaderValidated(level, content, attr) ==
    [level |-> IF level < 1 THEN 1 ELSE IF level > 6 THEN 6 ELSE level,
     content |-> content, attr |-> attr, kind |-> "Header"]

Header(level, content, attr) ==
    [level |-> level, content |-> content, attr |-> attr, kind |-> "Header"]

Image(src, alt, attr) ==
    [attr |-> attr, kind |-> "Image", src |-> src, alt |-> alt]

Link(href, content, attr) ==
    [content |-> content, attr |-> attr, kind |-> "Link", href |-> href]

Paragraph(content, attr) ==
    [content |-> content, attr |-> attr, kind |-> "Paragraph"]

Preformatted(content, attr) ==
    [content |-> content, attr |-> attr, kind |-> "Preformatted"]

Raw(content) == [content |-> content, kind |-> "Raw"]

\* impl Html for BodyContent
BodyContentToHtml(n) ==
    CASE n.kind = "Header" ->
            <<"<", "h">> \o U8ToString(n.level) \o AttributesDisplay(n.attr)
                \o <<">">> \o n.content
                \o <<"<", "/", "h">> \o U8ToString(n.level) \o <<">">>
      [] n.kind = "Paragraph" ->
            <<"<", "p">> \o AttributesDisplay(n.attr) \o <<">">> \o n.content
                \o <<"<", "/", "p", ">">>
      [] n.kind = "Preformatted" ->
            <<"<", "p", "r", "e">> \o AttributesDisplay(n.attr) \o <<">">>
                \o n.content \o <<"<", "/", "p", "r", "e", ">">>
      [] n.kind = "Link" ->
            <<"<", "a", " ", "h", "r", "e", "f", "=", "\"">> \o n.href
                \o <<"\"">> \o AttributesDisplay(n.attr) \o <<">">>
                \o n.content \o <<"<", "/", "a", ">">>
      [] n.kind = "Image" ->
            <<"<", "i", "m", "g", " ", "s", "r", "c", "=", "\"">> \o n.src
                \o <<"\"", " ", "a", "l", "t", "=", "\"">> \o n.alt
                \o <<"\"">> \o AttributesDisplay(n.attr) \o <<">">>
      [] n.kind = "Raw" -> n.content

(***************************************************************************)
(* elements.rs: HtmlTag, HtmlChild and HtmlElement.                        *)
(***************************************************************************)
\* HtmlTag::as_str, for the tags the model builds
HtmlTagStr(tag) ==
    CASE tag = "Div" -> <<"d", "i", "v">>
      [] tag = "ParagraphText" -> <<"p">>
      [] tag = "Image" -> <<"i", "m", "g">>
      [] tag = "LineBreak" -> <<"b", "r">>
      [] tag = "HorizontalRule" -> <<"h", "r">>
      [] tag = "Table" -> <<"t", "a", "b", "l", "e">>
      [] tag = "TableBody" -> <<"t", "b", "o", "d", "y">>
      [] tag = "TableCaption" -> <<"c", "a", "p", "t", "i", "o", "n">>
      [] tag = "TableCell" -> <<"t", "d">>
      [] tag = "TableFooter" -> <<"t", "f", "o", "o", "t">>
      [] tag = "TableHeader" -> <<"t", "h", "e", "a", "d">>
      [] tag = "TableHeaderCell" -> <<"t", "h">>
      [] tag = "TableRow" -> <<"t", "r">>

ChildElement(e) == [kind |-> "ChildElement", e |-> e]

ChildRaw(r) == [kind |-> "ChildRaw", r |-> r]

\* HtmlElement::new
HtmlElementNew(tag) ==
    [kind |-> "Element", tag |-> tag, attributes |-> <<>>, children |-> <<>>]

\* HtmlElement::add_child / with_child
ElementAddChild(e, child) == [e EXCEPT !.children = Append(@, child)]

ElementAddAttributeReplace(e, k, v) ==
    IF \E i \in 1..Len(e.attributes) : e.attributes[i][1] = k
    THEN [e EXCEPT !.attributes =
             [i \in 1..Len(e.attributes) |->
                 IF e.attributes[i][1] = k THEN <<k, v>> ELSE e.attributes[i]]]
    ELSE [e EXCEPT !.attributes = Append(e.attributes, <<k, v>>)]

\* HtmlElement::add_attribute / with_attribute
ElementAddAttribute(e, k, v) == [e EXCEPT !.attributes = Append(@, <<k, v>>)]

\* HtmlElement::write_attributes
WriteAttributes(e) ==
    Concat([i \in 1..Len(e.attributes) |->
               AttrFragment(e.attributes[i][1], e.attributes[i][2])])

RECURSIVE ElementToHtml(_)
\* impl Display for HtmlChild, HtmlElement::write_children
WriteChildren(e) ==
    Concat([i \in 1..Len(e.children) |->
               IF e.children[i].kind = "ChildElement"
               THEN ElementToHtml(e.children[i].e)
               ELSE e.children[i].r])

ElementToHtmlByContent(e) ==
    IF WriteChildren(e) = <<>>
    THEN <<"<">> \o HtmlTagStr(e.tag) \o WriteAttributes(e) \o <<"/", ">">>
    ELSE <<"<">> \o HtmlTagStr(e.tag) \o WriteAttributes(e) \o <<">">>
             \o WriteChildren(e)
             \o <<"<", "/">> \o HtmlTagStr(e.tag) \o <<">">>

\* impl Display for HtmlElement
ElementToHtml(e) ==
    IF e.children = <<>>
    THEN <<"<">> \o HtmlTagStr(e.tag) \o WriteAttributes(e) \o <<"/", ">">>
    ELSE <<"<">> \o HtmlTagStr(e.tag) \o WriteAttributes(e) \o <<">">>
             \o WriteChildren(e)
             \o <<"<", "/">> \o HtmlTagStr(e.tag) \o <<">">>

(***************************************************************************)
(* table.rs: Table.  An Option is a sequence of length 0 or 1.             *)
(***************************************************************************)
\* Table::new
TableNew ==
    [kind |-> "Table",
     table |-> HtmlElementNew("Table"),
     thead |-> HtmlElementNew("TableHeader"),
     tbody |-> HtmlElementNew("TableBody"),
     tfoot |-> HtmlElementNew("TableFooter"),
     caption |-> <<>>]

TableAssembleAlwaysFoot(t) ==
    LET t1 == ElementAddChild(ElementAddChild(t.table, ChildElement(t.thead)),
                              ChildElement(t.tbody))
        t2 == ElementAddChild(t1, ChildElement(t.tfoot))
    IN  IF t.caption # <<>>
        THEN ElementAddChild(t2, ChildElement(t.caption[1]))
        ELSE t2

TableAssembleCaptionFirst(t) ==
    LET t0 == IF t.caption # <<>>
              THEN ElementAddChild(t.table, ChildElement(t.caption[1]))
              ELSE t.table
        t1 == ElementAddChild(ElementAddChild(t0, ChildElement(t.thead)),
                              ChildElement(t.tbody))
    IN  IF t.tfoot.children # <<>> \/ t.tfoot.attributes # <<>>
        THEN ElementAddChild(t1, ChildElement(t.tfoot))
        ELSE t1

\* The element Table::to_html_string assembles from clones of the parts.
TableAssemble(t) ==
    LET t1 == ElementAddChild(ElementAddChild(t.table, ChildElement(t.thead)),
                              ChildElement(t.tbody))
        t2 == IF t.tfoot.children # <<>> \/ t.tfoot.attributes # <<>>
              THEN ElementAddChild(t1, ChildElement(t.tfoot))
              ELSE t1
        t3 == IF t.caption # <<>>
              THEN ElementAddChild(t2, ChildElement(t.caption[1]))
              ELSE t2
    IN  t3

\* impl Html for Table
TableToHtml(t) == ElementToHtml(TableAssemble(t))

TableToHtmlStringInPlace(t) ==
    [self |-> [t EXCEPT !.table = TableAssemble(t)], out |-> TableToHtml(t)]

\* Table::to_html_string as a call: the children are added to a clone of
\* self.table, so self is left as it was
TableToHtmlString(t) == [self |-> t, out |-> TableToHtml(t)]

\* impl HtmlContainer for HtmlElement / TableCell: add_html stores the
\* rendering of its argument as a raw child
ElementAddHtml(e, rendered) == ElementAddChild(e, ChildRaw(rendered))

RECURSIVE AddAttributes(_, _)
\* for (k, v) in attributes { element.add_attribute(k, v) }
AddAttributes(e, pairs) ==
    IF pairs = <<>> THEN e
    ELSE AddAttributes(ElementAddAttribute(e, Head(pairs)[1], Head(pairs)[2]),
                       Tail(pairs))

\* TableCell::new
TableCellNew(cellType) ==
    HtmlElementNew(IF cellType = "Header" THEN "TableHeaderCell" ELSE "TableCell")

\* TableRow::new
TableRowNew == HtmlElementNew("TableRow")

\* TableRow::add_cell / with_cell
RowAddCell(row, cell) == ElementAddChild(row, ChildElement(cell))

RECURSIVE RowOf(_, _)
\* row.into_iter().fold(TableRow::new(), |a, n|
\*     a.with_cell(TableCell::new(cellType).with_raw(n)))
RowOf(values, cellType) ==
    IF values = <<>> THEN TableRowNew
    ELSE RowAddCell(RowOf(SubSeq(values, 1, Len(values) - 1), cellType),
                    ElementAddHtml(TableCellNew(cellType),
                                   U8ToString(values[Len(values)])))

\* the four attributable elements of a Table
Regions == {"table", "thead", "tbody", "tfoot"}

RegionOf(t, r) ==
    CASE r = "table" -> t.table
      [] r = "thead" -> t.thead
      [] r = "tbody" -> t.tbody
      [] r = "tfoot" -> t.tfoot

\* a setter that gives the attributes of the thead to the tbody as well
TableAddAttributesToGroups(t, r, pairs) ==
    CASE r = "table" -> [t EXCEPT !.table = AddAttributes(@, pairs)]
      [] r = "thead" -> [t EXCEPT !.thead = AddAttributes(@, pairs),
                                  !.tbody = AddAttributes(@, pairs)]
      [] r = "tbody" -> [t EXCEPT !.tbody = AddAttributes(@, pairs)]
      [] r = "tfoot" -> [t EXCEPT !.tfoot = AddAttributes(@, pairs)]

\* Table::add_attributes, add_thead_attributes, add_tbody_attributes and
\* add_tfoot_attributes (and the with_ forms)
TableAddAttributes(t, r, pairs) ==
    CASE r = "table" -> [t EXCEPT !.table = AddAttributes(@, pairs)]
      [] r = "thead" -> [t EXCEPT !.thead = AddAttributes(@, pairs)]
      [] r = "tbody" -> [t EXCEPT !.tbody = AddAttributes(@, pairs)]
      [] r = "tfoot" -> [t EXCEPT !.tfoot = AddAttributes(@, pairs)]

\* an add_caption that adds the content to the caption already there
TableAddCaptionInto(t, rendered) ==
    IF t.caption = <<>>
    THEN [t EXCEPT !.caption = Some(ElementAddHtml(HtmlElementNew("TableCaption"),
                                                   rendered))]
    ELSE [t EXCEPT !.caption = Some(ElementAddHtml(t.caption[1], rendered))]

\* Table::add_caption / with_caption
TableAddCaption(t, rendered) ==
    [t EXCEPT !.caption = Some(ElementAddHtml(HtmlElementNew("TableCaption"),
                                              rendered))]

\* Table::add_custom_header_row / with_custom_header_row
TableAddCustomHeaderRow(t, row) ==
    [t EXCEPT !.thead = ElementAddChild(@, ChildElement(row))]

\* Table::add_custom_body_row / with_custom_body_row
TableAddCustomBodyRow(t, row) ==
    [t EXCEPT !.tbody = ElementAddChild(@, ChildElement(row))]

\* Table::add_custom_footer_row / with_custom_footer_row
TableAddCustomFooterRow(t, row) ==
    [t EXCEPT !.tfoot = ElementAddChild(@, ChildElement(row))]

TableAddHeaderRowData(t, values) ==
    TableAddCustomHeaderRow(t, RowOf(values, "Data"))

\* Table::add_header_row / with_header_row
TableAddHeaderRow(t, values) == TableAddCustomHeaderRow(t, RowOf(values, "Header"))

TableAddBodyRowChecked(t, values) ==
    IF /\ t.tbody.children # <<>>
       /\ Len(t.tbody.children[1].e.children) # Len(values)
    THEN t
    ELSE TableAddCustomBodyRow(t, RowOf(values, "Data"))

\* Table::add_body_row / with_body_row
TableAddBodyRow(t, values) == TableAddCustomBodyRow(t, RowOf(values, "Data"))

\* Table::add_footer_row / with_footer_row
TableAddFooterRow(t, values) == TableAddCustomFooterRow(t, RowOf(values, "Header"))

RECURSIVE TableFromReversed(_)
TableFromReversed(source) ==
    IF source = <<>> THEN TableNew
    ELSE TableAddBodyRow(TableFromReversed(Tail(source)), Head(source))

RECURSIVE TableFrom(_)
\* impl From<T> for Table:
\* source.into_iter().fold(Table::new(), |a, n| a.with_body_row(n))
TableFrom(source) ==
    IF source = <<>> THEN TableNew
    ELSE TableAddBodyRow(TableFrom(SubSeq(source, 1, Len(source) - 1)),
                         source[Len(source)])

(***************************************************************************)
(* container.rs: ContainerType and Container.                              *)
(***************************************************************************)
ContainerTypes ==
    {"Address", "Article", "Div", "Footer", "Header", "Main",
     "OrderedList", "UnorderedList"}

\* impl Display for ContainerType
ContainerTypeStr(tag) ==
    CASE tag = "Address" -> <<"a", "d", "d", "r", "e", "s", "s">>
      [] tag = "Article" -> <<"a", "r", "t", "i", "c", "l", "e">>
      [] tag = "Div" -> <<"d", "i", "v">>
      [] tag = "Footer" -> <<"f", "o", "o", "t", "e", "r">>
      [] tag = "Header" -> <<"h", "e", "a", "d", "e", "r">>
      [] tag = "Main" -> <<"m", "a", "i", "n">>
      [] tag = "OrderedList" -> <<"o", "l">>
      [] tag = "UnorderedList" -> <<"u", "l">>

\* Container::new
ContainerNew(tag) ==
    [attr |-> AttributesDefault, kind |-> "Container", tag |-> tag,
     elements |-> <<>>]

RECURSIVE ToHtml(_)
ContainerToHtmlWrapAll(c) ==
    <<"<">> \o ContainerTypeStr(c.tag) \o AttributesDisplay(c.attr) \o <<">">>
        \o Concat([i \in 1..Len(c.elements) |->
                      <<"<", "l", "i", ">">> \o ToHtml(c.elements[i])
                          \o <<"<", "/", "l", "i", ">">>])
        \o <<"<", "/">> \o ContainerTypeStr(c.tag) \o <<">">>

ContainerToHtmlOpenItems(c) ==
    LET content ==
            IF c.tag \in {"OrderedList", "UnorderedList"}
            THEN Concat([i \in 1..Len(c.elements) |->
                            <<"<", "l", "i", ">">> \o ToHtml(c.elements[i])])
            ELSE Concat([i \in 1..Len(c.elements) |-> ToHtml(c.elements[i])])
    IN  <<"<">> \o ContainerTypeStr(c.tag) \o AttributesDisplay(c.attr)
            \o <<">">> \o content
            \o <<"<", "/">> \o ContainerTypeStr(c.tag) \o <<">">>

ContainerToHtmlWrapByChild(c) ==
    LET content ==
            Concat([i \in 1..Len(c.elements) |->
                       IF \/ c.tag \in {"OrderedList", "UnorderedList"}
                             /\ c.elements[i].kind # "Container"
                          \/ /\ c.elements[i].kind = "Container"
                             /\ c.elements[i].tag
                                    \in {"OrderedList", "UnorderedList"}
                       THEN <<"<", "l", "i", ">">> \o ToHtml(c.elements[i])
                                \o <<"<", "/", "l", "i", ">">>
                       ELSE ToHtml(c.elements[i])])
    IN  <<"<">> \o ContainerTypeStr(c.tag) \o AttributesDisplay(c.attr)
            \o <<">">> \o content
            \o <<"<", "/">> \o ContainerTypeStr(c.tag) \o <<">">>

\* impl Html for Container
ContainerToHtml(c) ==
    LET content ==
            IF c.tag \in {"OrderedList", "UnorderedList"}
            THEN Concat([i \in 1..Len(c.elements) |->
                            <<"<", "l", "i", ">">> \o ToHtml(c.elements[i])
                                \o <<"<", "/", "l", "i", ">">>])
            ELSE Concat([i \in 1..Len(c.elements) |-> ToHtml(c.elements[i])])
    IN  <<"<">> \o ContainerTypeStr(c.tag) \o AttributesDisplay(c.attr)
            \o <<">">> \o content
            \o <<"<", "/">> \o ContainerTypeStr(c.tag) \o <<">">>

\* the text with every run of spaces collapsed to one space
CollapseSpaces(s) ==
    Concat([i \in 1..Len(s) |->
               IF i > 1 /\ s[i] = " " /\ s[i - 1] = " " THEN <<>> ELSE <<s[i]>>])

\* a dispatch that normalises the whitespace of content nodes
ToHtmlNormalised(n) ==
    CASE n.kind = "Container" -> ContainerToHtml(n)
      [] n.kind = "Table" -> TableToHtml(n)
      [] n.kind = "Element" -> ElementToHtml(n)
      [] OTHER -> CollapseSpaces(BodyContentToHtml(n))

\* Html::to_html_string on a boxed node: dispatch on the node's type
ToHtml(n) ==
    CASE n.kind = "Container" -> ContainerToHtml(n)
      [] n.kind = "Table" -> TableToHtml(n)
      [] n.kind = "Element" -> ElementToHtml(n)
      [] OTHER -> BodyContentToHtml(n)

ContainerAddHtmlFront(c, content) ==
    [c EXCEPT !.elements = <<content>> \o @]

\* impl HtmlContainer for Container: add_html
ContainerAddHtml(c, content) == [c EXCEPT !.elements = Append(@, content)]

ContainerWithAttributesMerge(c, a) ==
    [c EXCEPT !.attr =
        [map |-> [k \in (DOMAIN c.attr.map) \cup (DOMAIN a.map) |->
                     IF k \in DOMAIN a.map THEN a.map[k] ELSE c.attr.map[k]],
         iter |-> a.iter \o
                  SelectSeq(c.attr.iter, LAMBDA k : k \notin DOMAIN a.map)]]

\* Container::with_attributes, a being Attributes::from(attributes)
ContainerWithAttributes(c, a) == [c EXCEPT !.attr = a]

(***************************************************************************)
(* html_page/header_content.rs: the nodes of the head.                     *)
(***************************************************************************)
HeadLink(href, rel, attr) ==
    [attr |-> attr, kind |-> "HeadLink", href |-> href, rel |-> rel]

Meta(attr) == [attr |-> attr, kind |-> "Meta"]

ScriptLink(src, attr) == [attr |-> attr, kind |-> "ScriptLink", src |-> src]

ScriptLiteral(code) == [kind |-> "ScriptLiteral", code |-> code]

Style(css, attr) == [attr |-> attr, kind |-> "Style", css |-> css]

Title(content) == [content |-> content, kind |-> "Title"]

\* impl Html for Link, Meta, ScriptLink, ScriptLiteral, Style, Title
HeadContentToHtml(n) ==
    CASE n.kind = "HeadLink" ->
            <<"<", "l", "i", "n", "k", " ", "h", "r", "e", "f", "=", "\"">>
                \o n.href \o <<"\"", " ", "r", "e", "l", "=", "\"">> \o n.rel
                \o <<"\"">> \o AttributesDisplay(n.attr) \o <<">">>
      [] n.kind = "Meta" ->
            <<"<", "m", "e", "t", "a">> \o AttributesDisplay(n.attr) \o <<">">>
      [] n.kind = "ScriptLink" ->
            <<"<", "s", "c", "r", "i", "p", "t", " ", "s", "r", "c", "=", "\"">>
                \o n.src \o <<"\"">> \o AttributesDisplay(n.attr)
                \o <<">", "<", "/", "s", "c", "r", "i", "p", "t", ">">>
      [] n.kind = "ScriptLiteral" ->
            <<"<", "s", "c", "r", "i", "p", "t", ">">> \o n.code
                \o <<"<", "/", "s", "c", "r", "i", "p", "t", ">">>
      [] n.kind = "Style" ->
            <<"<", "s", "t", "y", "l", "e">> \o AttributesDisplay(n.attr)
                \o <<">">> \o n.css \o <<"<", "/", "s", "t", "y", "l", "e", ">">>
      [] n.kind = "Title" ->
            <<"<", "t", "i", "t", "l", "e", ">">> \o n.content
                \o <<"<", "/", "t", "i", "t", "l", "e", ">">>

(***************************************************************************)
(* html_page/constants.rs and html_page/mod.rs: HtmlPage.                  *)
(***************************************************************************)
HTML_XML ==
    <<"<", "h", "t", "m", "l", " ", "x", "m", "l", "n", "s", "=", "\"", "h",
      "t", "t", "p", ":", "/", "/", "w", "w", "w", ".", "w", "3", ".", "o",
      "r", "g", "/", "1", "9", "9", "9", "/", "x", "h", "t", "m", "l", "\"",
      ">">>

XHTML_1_DOT_0 ==
    <<"<", "!", "D", "O", "C", "T", "Y", "P", "E", " ", "h", "t", "m", "l",
      " ", "P", "U", "B", "L", "I", "C", " ", "\"", "-", "/", "/", "W", "3",
      "C", "/", "/", "D", "T", "D", " ", "X", "H", "T", "M", "L", " ", "1",
      ".", "0", " ", "T", "r", "a", "n", "s", "i", "t", "i", "o", "n", "a",
      "l", "/", "/", "E", "N", "\"", " ", "\"", "h", "t", "t", "p", ":", "/",
      "/", "w", "w", "w", ".", "w", "3", ".", "o", "r", "g", "/", "T", "R",
      "/", "x", "h", "t", "m", "l", "1", "/", "D", "T", "D", "/", "x", "h",
      "t", "m", "l", "1", "-", "t", "r", "a", "n", "s", "i", "t", "i", "o",
      "n", "a", "l", ".", "d", "t", "d", "\"", ">">>

HTML5 ==
    <<"<", "!", "D", "O", "C", "T", "Y", "P", "E", " ", "h", "t", "m", "l",
      ">">>

HTML_PLAIN_TAG == <<"<", "h", "t", "m", "l", ">">>

\* impl Default for HtmlPage, HtmlPage::new
HtmlPageDefault ==
    [doctype |-> HTML5, html |-> HTML_PLAIN_TAG, head |-> <<>>, body |-> <<>>]

HtmlPageToHtmlBodyFirst(pg) ==
    pg.doctype \o pg.html \o <<"<", "h", "e", "a", "d", ">">> \o pg.body
        \o <<"<", "/", "h", "e", "a", "d", ">", "<", "b", "o", "d", "y", ">">>
        \o pg.head
        \o <<"<", "/", "b", "o", "d", "y", ">", "<", "/", "h", "t", "m", "l", ">">>

\* impl Html for HtmlPage
HtmlPageToHtml(pg) ==
    pg.doctype \o pg.html \o <<"<", "h", "e", "a", "d", ">">> \o pg.head
        \o <<"<", "/", "h", "e", "a", "d", ">", "<", "b", "o", "d", "y", ">">>
        \o pg.body
        \o <<"<", "/", "b", "o", "d", "y", ">", "<", "/", "h", "t", "m", "l", ">">>

\* an add_html that puts the rendering before the body collected so far
HtmlPageAddHtmlFirst(pg, rendered) == [pg EXCEPT !.body = rendered \o @]

\* impl HtmlContainer for HtmlPage: add_html, rendered being
\* html.to_html_string()
HtmlPageAddHtml(pg, rendered) == [pg EXCEPT !.body = @ \o rendered]

HtmlPageAddHtmlHeadIntoBody(pg, rendered) == [pg EXCEPT !.body = @ \o rendered]

\* an add_html_head for a page with one buffer position: once the body has
\* content, the rendering lands after it
HtmlPageAddHtmlHeadAfterBody(pg, rendered) ==
    IF pg.body = <<>> THEN [pg EXCEPT !.head = @ \o rendered]
    ELSE [pg EXCEPT !.body = @ \o rendered]

\* HtmlPage::add_html_head / with_html_head
HtmlPageAddHtmlHead(pg, rendered) == [pg EXCEPT !.head = @ \o rendered]

\* a setter of the doctype that puts the plain <html> tag back as well
HtmlPageSetDoctypeAndTag(pg, doctype) ==
    [pg EXCEPT !.doctype = doctype, !.html = HTML_PLAIN_TAG]

\* HtmlPage::custom_doctype, doctype_html5, doctype_xhtml
HtmlPageSetDoctype(pg, doctype) == [pg EXCEPT !.doctype = doctype]

\* HtmlPage::custom_html_tag, html_xml
HtmlPageSetHtmlTag(pg, tag) == [pg EXCEPT !.html = tag]

(***************************************************************************)
(* content.rs and html_page.rs: the HtmlPage that keeps the nodes it is    *)
(* given, head: Vec<HeadContent> and body: Vec<Box<dyn Html>>.             *)
(***************************************************************************)
\* impl Html for HeadContent
HeadContentEnumToHtml(n) ==
    CASE n.kind = "HeadLink" ->
            <<"<", "l", "i", "n", "k", " ", "h", "r", "e", "f", "=", "\"">> \o
              n.href \o <<"\"", " ", "r", "e", "l", "=", "\"">> \o n.rel \o
              <<"\"">> \o AttributesDisplay(n.attr) \o <<">">>
      [] n.kind = "Meta" ->
            <<"<", "m", "e", "t", "a">> \o AttributesDisplay(n.attr) \o
              <<">">>
      [] n.kind = "ScriptLink" ->
            <<"<", "s", "c", "r", "i", "p", "t", " ", "s", "r", "c", "=",
              "\"">> \o n.src \o <<"\"">> \o AttributesDisplay(n.attr) \o
              <<">", "<", "/", "s", "c", "r", "i", "p", "t", ">">>
      [] n.kind = "ScriptLiteral" ->
            <<"<", "s", "c", "r", "i", "p", "t", ">">> \o n.code \o <<"<",
              "/", "s", "c", "r", "i", "p", "t", ">">>
      [] n.kind = "Style" ->
            <<"<", "s", "t", "y", "l", "e">> \o AttributesDisplay(n.attr) \o
              <<">">> \o n.css \o <<"<", "/", "s", "t", "y", "l", "e", ">">>
      [] n.kind = "Title" ->
            <<"<", "t", "i", "t", "l", "e", ">">> \o n.content \o <<"<", "/",
              "t", "i", "t", "l", "e", ">">>

\* HtmlPage::new of html_page.rs
NodeListPageNew == [head |-> <<>>, body |-> <<>>]

\* impl HtmlContainer for HtmlPage of html_page.rs: add_html
NodeListPageAddHtml(pg, node) == [pg EXCEPT !.body = Append(@, node)]

\* add_head_link, add_meta, add_script_link, add_style, add_title, ... of
\* html_page.rs: self.head.push(node)
NodeListPageAddHead(pg, node) == [pg EXCEPT !.head = Append(@, node)]

\* impl Html for HtmlPage of html_page.rs: the nodes are rendered now
NodeListPageToHtml(pg) ==
    <<"<", "!", "D", "O", "C", "T", "Y", "P", "E", " ", "h", "t", "m", "l",
      ">", "<", "h", "t", "m", "l", ">", "<", "h", "e", "a", "d", ">">>
        \o Concat([i \in 1..Len(pg.head) |-> HeadContentEnumToHtml(pg.head[i])])
        \o <<"<", "/", "h", "e", "a", "d", ">",
           "<", "b", "o", "d", "y", ">">>
        \o Concat([i \in 1..Len(pg.body) |-> ToHtml(pg.body[i])])
        \o <<"<", "/", "b", "o", "d", "y", ">", "<", "/", "h", "t", "m", "l", ">">>

(***************************************************************************)
(* html_page/version.rs: HtmlVersion.                                      *)
(***************************************************************************)
HtmlVersions == {"HTML5", "HTML4", "XHTML1_0", "XHTML1_1"}

HtmlVersionDoctypeShared(version) ==
    IF version = "HTML5" THEN HTML5 ELSE XHTML_1_DOT_0

\* HtmlVersion::doctype
HtmlVersionDoctype(version) ==
    CASE version = "HTML5" ->
          <<"<", "!", "D", "O", "C", "T", "Y", "P", "E", " ", "h", "t", "m",
            "l", ">">>
      [] version = "HTML4" ->
          <<"<", "!", "D", "O", "C", "T", "Y", "P", "E", " ", "H", "T", "M",
            "L", " ", "P", "U", "B", "L", "I", "C", " ", "\"", "-", "/", "/",
            "W", "3", "C", "/", "/", "D", "T", "D", " ", "H", "T", "M", "L",
            " ", "4", ".", "0", "1", " ", "T", "r", "a", "n", "s", "i", "t",
            "i", "o", "n", "a", "l", "/", "/", "E", "N", "\"", " ", "\"", "h",
            "t", "t", "p", ":", "/", "/", "w", "w", "w", ".", "w", "3", ".",
            "o", "r", "g", "/", "T", "R", "/", "H", "T", "M", "L", "4", "/",
            "l", "o", "o", "s", "e", ".", "d", "t", "d", "\"", ">">>
      [] version = "XHTML1_0" ->
          <<"<", "!", "D", "O", "C", "T", "Y", "P", "E", " ", "h", "t", "m",
            "l", " ", "P", "U", "B", "L", "I", "C", " ", "\"", "-", "/", "/",
            "W", "3", "C", "/", "/", "D", "T", "D", " ", "X", "H", "T", "M",
            "L", " ", "1", ".", "0", " ", "T", "r", "a", "n", "s", "i", "t",
            "i", "o", "n", "a", "l", "/", "/", "E", "N", "\"", " ", "\"", "h",
            "t", "t", "p", ":", "/", "/", "w", "w", "w", ".", "w", "3", ".",
            "o", "r", "g", "/", "T", "R", "/", "x", "h", "t", "m", "l", "1",
            "/", "D", "T", "D", "/", "x", "h", "t", "m", "l", "1", "-", "t",
            "r", "a", "n", "s", "i", "t", "i", "o", "n", "a", "l", ".", "d",
            "t", "d", "\"", ">">>
      [] version = "XHTML1_1" ->
          <<"<", "!", "D", "O", "C", "T", "Y", "P", "E", " ", "h", "t", "m",
            "l", " ", "P", "U", "B", "L", "I", "C", " ", "\"", "-", "/", "/",
            "W", "3", "C", "/", "/", "D", "T", "D", " ", "X", "H", "T", "M",
            "L", " ", "1", ".", "1", "/", "/", "E", "N", "\"", " ", "\"", "h",
            "t", "t", "p", ":", "/", "/", "w", "w", "w", ".", "w", "3", ".",
            "o", "r", "g", "/", "T", "R", "/", "x", "h", "t", "m", "l", "1",
            "1", "/", "D", "T", "D", "/", "x", "h", "t", "m", "l", "1", "1",
            ".", "d", "t", "d", "\"", ">">>

XmlnsPair ==
    <<
      <<"x", "m", "l", "n", "s">>,
      <<"h", "t", "t", "p", ":", "/", "/", "w", "w", "w", ".", "w", "3", ".",
        "o", "r", "g", "/", "1", "9", "9", "9", "/", "x", "h", "t", "m", "l">> >>

XmlnsXsiPair ==
    <<
      <<"x", "m", "l", "n", "s", ":", "x", "s", "i">>,
      <<"h", "t", "t", "p", ":", "/", "/", "w", "w", "w", ".", "w", "3", ".",
        "o", "r", "g", "/", "2", "0", "0", "1", "/", "X", "M", "L", "S", "c",
        "h", "e", "m", "a", "-", "i", "n", "s", "t", "a", "n", "c", "e">> >>

XsiSchemaLocationPair ==
    <<
      <<"x", "s", "i", ":", "s", "c", "h", "e", "m", "a", "L", "o", "c", "a",
        "t", "i", "o", "n">>,
      <<"h", "t", "t", "p", ":", "/", "/", "w", "w", "w", ".", "w", "3", ".",
        "o", "r", "g", "/", "M", "a", "r", "k", "U", "p", "/", "S", "C", "H",
        "E", "M", "A", "/", "x", "h", "t", "m", "l", "1", "1", ".", "x", "s",
        "d">> >>

XmlLangPair ==
    <<
      <<"x", "m", "l", ":", "l", "a", "n", "g">>,
      <<"e", "n">> >>

\* HtmlVersion::html_attrs: the Attributes values it can return
HtmlVersionHtmlAttrs(version) ==
    CASE version = "XHTML1_0" -> AttributesFromIter(<<XmlnsPair>>)
      [] version = "XHTML1_1" ->
            AttributesFromIter(<<XmlnsPair, XmlnsXsiPair, XsiSchemaLocationPair,
                                 XmlLangPair>>)
      [] OTHER -> {AttributesDefault}

\* HtmlPage::with_version: a page with no head and no body content, whose
\* doctype is the version's and whose opening tag carries the version's
\* attributes
HtmlPageWithVersion(version) ==
    { [doctype |-> HtmlVersionDoctype(version),
       html |-> <<"<", "h", "t", "m", "l">> \o AttributesDisplay(a) \o <<">">>,
       head |-> <<>>,
       body |-> <<>>] : a \in HtmlVersionHtmlAttrs(version) }

\* the pages that with_version can return, by version
VersionPages == [version \in HtmlVersions |-> HtmlPageWithVersion(version)]

(***************************************************************************)
(* html_container.rs: the provided methods of the HtmlContainer trait, and *)
(* the consuming builder methods of HtmlElement, TableRow and Table.       *)
(***************************************************************************)
\* HtmlContainer::add_html, as each implementor defines it: a Container
\* stores the node, an HtmlElement and an HtmlPage store its rendering
AddHtml(self, html) ==
    CASE "elements" \in DOMAIN self -> ContainerAddHtml(self, html)
      [] "children" \in DOMAIN self -> ElementAddHtml(self, ToHtml(html))
      [] "doctype" \in DOMAIN self -> HtmlPageAddHtml(self, ToHtml(html))

WithHtmlUnchanged(self, html) == self

\* HtmlContainer::with_html: self.add_html(html); self
WithHtml(self, html) ==
    LET added == AddHtml(self, html)
    IN  added

\* HtmlContainer::add_container
AddContainer(self, container) == AddHtml(self, container)

\* HtmlContainer::with_container
WithContainer(self, container) == WithHtml(self, container)

\* HtmlContainer::add_table
AddTable(self, table) == AddHtml(self, table)

\* HtmlContainer::with_table
WithTable(self, table) == WithHtml(self, table)

\* HtmlContainer::add_header
AddHeader(self, level, text) ==
    LET content == Header(level, text, AttributesDefault)
    IN  AddHtml(self, content)

\* HtmlContainer::with_header
WithHeader(self, level, text) ==
    LET content == Header(level, text, AttributesDefault)
    IN  WithHtml(self, content)

\* HtmlContainer::add_raw
AddRaw(self, content) == AddHtml(self, Raw(content))

\* HtmlContainer::with_raw
WithRaw(self, content) == WithHtml(self, Raw(content))

\* HtmlElement::with_child: self.add_child(content); self
ElementWithChild(e, content) ==
    LET added == ElementAddChild(e, content)
    IN  added

\* HtmlElement::with_attribute: self.add_attribute(k, v); self
ElementWithAttribute(e, k, v) ==
    LET added == ElementAddAttribute(e, k, v)
    IN  added

\* TableRow::with_cell: self.add_cell(cell); self
RowWithCell(row, cell) ==
    LET added == RowAddCell(row, cell)
    IN  added

\* Table::with_body_row: self.add_body_row(row); self
TableWithBodyRow(t, row) ==
    LET added == TableAddBodyRow(t, row)
    IN  added

\* Table::with_caption: self.add_caption(caption); self
TableWithCaption(t, rendered) ==
    LET added == TableAddCaption(t, rendered)
    IN  added

(***************************************************************************)
(* Inputs of the operations.                                               *)
(***************************************************************************)
TextX == <<"x">>

\* a text with markup characters, a quote and a run of two spaces
TextY == <<"<", "&", " ", " ", "\"", ">">>

PairsId == << <<(<<"i", "d">>), (<<"m">>)>> >>

PairsClass == << <<(<<"c", "l", "a", "s", "s">>), (<<"c">>)>> >>

\* an attribute whose value holds a quote and markup characters
PairsTitle == << <<(<<"t", "i", "t", "l", "e">>), (<<"\"", "<", "&">>)>> >>

\* the arguments given to with_attributes
AttrArgs == {PairsId, PairsClass}

\* the names and values of a pair sequence, as a set of pairs
PairSet(pairs) == {pairs[i] : i \in 1..Len(pairs)}

\* containers built beforehand and nested into cont
NestedContainers ==
    { ContainerAddHtml(ContainerNew("OrderedList"),
                       Paragraph(TextY, AttributesDefault)) }

(***************************************************************************)
(* The Container under construction.                                       *)
(***************************************************************************)
InitAttrs ==
    /\ attrs = AttributesDefault
    /\ attrs2 = AttributesDefault
    /\ attrPairs = <<>>
    /\ attrPairs2 = <<>>
    /\ attrsOut = None
    /\ attrs2Out = None

\* Container::new(tag) for the program that builds a Container, and
\* Container::default() otherwise
InitCont(f) ==
    /\ cont \in IF f = "Container"
                THEN {ContainerNew(tag) : tag \in ContainerTypes}
                ELSE {ContainerNew("Div")}
    /\ contLog = <<>>
    /\ contAttrLog = None
    /\ contAttrPrev = None
    /\ contOut = None

attrVars == <<focus, attrs, attrs2, attrPairs, attrPairs2, attrsOut, attrs2Out>>

tabVars == <<tab, tabAttrLast, tabOut, tabSource>>

contVars == <<cont, contLog, contAttrLog, contAttrPrev, contOut>>

pageVars == <<page, pageHeadLog, pageBodyLog, pageOut, nodePage>>

elemVars == <<elem, elemOut>>

\* HtmlContainer::add_html / with_html on the Container
ContAddHtml(node) ==
    /\ Len(cont.elements) < MaxChildren
    /\ cont' = ContainerAddHtml(cont, node)
    /\ contLog' = Append(contLog, ToHtml(node))
    /\ contOut' = None
    /\ UNCHANGED <<contAttrLog, contAttrPrev, attrVars, tabVars, pageVars, elemVars>>

\* HtmlContainer::add_container / with_container
ContAddContainer == \E c \in NestedContainers : ContAddHtml(c)

\* HtmlContainer::add_table / with_table
ContAddTable == ContAddHtml(TableNew)

\* HtmlContainer::add_header / with_header
ContAddHeader == ContAddHtml(Header(1, TextX, AttributesDefault))

\* HtmlContainer::add_header_attr / with_header_attr
ContAddHeaderAttr ==
    \E a \in AttributesFromIter(PairsTitle) :
        ContAddHtml(Header(255, TextY, a))

\* HtmlContainer::add_image / with_image
ContAddImage == ContAddHtml(Image(TextX, TextY, AttributesDefault))

\* HtmlContainer::add_link / with_link
ContAddLink == ContAddHtml(Link(TextX, TextY, AttributesDefault))

\* HtmlContainer::add_paragraph / with_paragraph
ContAddParagraph == ContAddHtml(Paragraph(TextX, AttributesDefault))

\* HtmlContainer::add_preformatted / with_preformatted
ContAddPreformatted == ContAddHtml(Preformatted(TextY, AttributesDefault))

\* HtmlContainer::add_raw / with_raw
ContAddRaw == ContAddHtml(Raw(TextY))

\* Container::with_attributes
ContWithAttributes ==
    \E pairs \in AttrArgs : \E a \in AttributesFromIter(pairs) :
        /\ cont' = ContainerWithAttributes(cont, a)
        /\ contAttrLog' = Some(pairs)
        /\ contAttrPrev' = contAttrLog
        /\ contOut' = None
        /\ UNCHANGED <<contLog, attrVars, tabVars, pageVars, elemVars>>

\* Html::to_html_string on the Container: takes &self
ContToHtmlString ==
    /\ contOut' = Some(ContainerToHtml(cont))
    /\ UNCHANGED <<cont, contLog, contAttrLog, contAttrPrev, attrVars, tabVars, pageVars, elemVars>>

NextContainer ==
    \/ ContAddContainer
    \/ ContAddTable
    \/ ContAddHeader
    \/ ContAddHeaderAttr
    \/ ContAddImage
    \/ ContAddLink
    \/ ContAddParagraph
    \/ ContAddPreformatted
    \/ ContAddRaw
    \/ ContWithAttributes
    \/ ContToHtmlString

(***************************************************************************)
(* The Table under construction.                                           *)
(***************************************************************************)
\* the values of a row given to add_header_row and add_footer_row
RowArgs == {<<1, 2>>}

\* the values of a row given to add_body_row: a row may have no value
BodyRowArgs == {<<1, 2>>, <<>>}

\* the 2-D sequences given to Table::from
TableSources ==
    { <<>>,
      << <<1, 2>>, <<>> >>,
      << <<2>>, <<1, 2>>, <<>> >> }

\* rows built with TableRow and TableCell for the add_custom_*_row methods
CustomRows ==
    { RowAddCell(AddAttributes(TableRowNew, PairsId),
                 ElementAddHtml(AddAttributes(TableCellNew("Header"), PairsClass),
                                TextX)) }

\* the captions given to add_caption
Captions == {Paragraph(TextY, AttributesDefault)}

TableAttrArgs(r) == IF r = "table" THEN AttrArgs ELSE {PairsId}

TotalRows(t) ==
    Len(t.thead.children) + Len(t.tbody.children) + Len(t.tfoot.children)

TotalAttrPairs(t) ==
    Len(t.table.attributes) + Len(t.thead.attributes)
        + Len(t.tbody.attributes) + Len(t.tfoot.attributes)

InitTab ==
    /\ tab = TableNew
    /\ tabAttrLast = [r \in Regions |-> None]
    /\ tabSource = None
    /\ tabOut = None

TabAttributes(r) ==
    \E pairs \in TableAttrArgs(r) :
        /\ TotalAttrPairs(tab) + Len(pairs) <= MaxAttrPairs
        /\ tab' = TableAddAttributes(tab, r, pairs)
        /\ tabAttrLast' = [tabAttrLast EXCEPT ![r] = Some(pairs)]
        /\ tabOut' = None
        /\ tabSource' = None
        /\ UNCHANGED <<attrVars, contVars, pageVars, elemVars>>

\* Table::add_attributes / with_attributes
TabAddAttributes == TabAttributes("table")

\* Table::add_thead_attributes / with_thead_attributes
TabAddTheadAttributes == TabAttributes("thead")

\* Table::add_tbody_attributes / with_tbody_attributes
TabAddTbodyAttributes == TabAttributes("tbody")

\* Table::add_tfoot_attributes / with_tfoot_attributes
TabAddTfootAttributes == TabAttributes("tfoot")

TabChange(t) ==
    /\ tab' = t
    /\ tabOut' = None
    /\ tabSource' = None
    /\ UNCHANGED <<tabAttrLast, attrVars, contVars, pageVars, elemVars>>

\* Table::add_caption / with_caption
TabAddCaption == \E c \in Captions : TabChange(TableAddCaption(tab, ToHtml(c)))

\* Table::add_header_row / with_header_row
TabAddHeaderRow ==
    /\ TotalRows(tab) < MaxRows
    /\ \E values \in RowArgs : TabChange(TableAddHeaderRow(tab, values))

\* Table::add_custom_header_row / with_custom_header_row
TabAddCustomHeaderRow ==
    /\ TotalRows(tab) < MaxRows
    /\ \E row \in CustomRows : TabChange(TableAddCustomHeaderRow(tab, row))

\* Table::add_body_row / with_body_row
TabAddBodyRow ==
    /\ TotalRows(tab) < MaxRows
    /\ \E values \in BodyRowArgs : TabChange(TableAddBodyRow(tab, values))

\* Table::add_custom_body_row / with_custom_body_row
TabAddCustomBodyRow ==
    /\ TotalRows(tab) < MaxRows
    /\ \E row \in CustomRows : TabChange(TableAddCustomBodyRow(tab, row))

\* Table::add_footer_row / with_footer_row
TabAddFooterRow ==
    /\ TotalRows(tab) < MaxRows
    /\ \E values \in RowArgs : TabChange(TableAddFooterRow(tab, values))

\* Table::add_custom_footer_row / with_custom_footer_row
TabAddCustomFooterRow ==
    /\ TotalRows(tab) < MaxRows
    /\ \E row \in CustomRows : TabChange(TableAddCustomFooterRow(tab, row))

\* Html::to_html_string on the Table
TabToHtmlString ==
    /\ tab' = TableToHtmlString(tab).self
    /\ tabOut' = Some(TableToHtmlString(tab).out)
    /\ UNCHANGED <<tabAttrLast, tabSource, attrVars, contVars, pageVars, elemVars>>

\* Table::from(source): the table is built anew
TabFrom ==
    \E source \in TableSources :
        /\ Len(source) <= MaxRows
        /\ tab' = TableFrom(source)
        /\ tabSource' = Some(source)
        /\ tabAttrLast' = [r \in Regions |-> None]
        /\ tabOut' = None
        /\ UNCHANGED <<attrVars, contVars, pageVars, elemVars>>

NextTable ==
    \/ TabFrom
    \/ TabAddAttributes
    \/ TabAddTheadAttributes
    \/ TabAddTbodyAttributes
    \/ TabAddTfootAttributes
    \/ TabAddCaption
    \/ TabAddHeaderRow
    \/ TabAddCustomHeaderRow
    \/ TabAddBodyRow
    \/ TabAddCustomBodyRow
    \/ TabAddFooterRow
    \/ TabAddCustomFooterRow
    \/ TabToHtmlString

(***************************************************************************)
(* The HtmlPage under construction.                                        *)
(***************************************************************************)
\* the argument of custom_doctype
CustomDoctype == <<"<", "!", "D", "O", "C", "T", "Y", "P", "E", " ", "x", ">">>

\* the argument of custom_html_tag
CustomHtmlTag ==
    <<"<", "h", "t", "m", "l", " ", "l", "a", "n", "g", "=", "\"", "e", "n",
      "\"", ">">>

Stylesheet == <<"s", "t", "y", "l", "e", "s", "h", "e", "e", "t">>

\* HtmlPage::new()
InitPage ==
    /\ page = HtmlPageDefault
    /\ pageHeadLog = <<>>
    /\ pageBodyLog = <<>>
    /\ pageOut = None
    /\ nodePage = NodeListPageNew

PageAdds == Len(pageHeadLog) + Len(pageBodyLog)

\* HtmlContainer::add_html / with_html on the HtmlPage
PageAddHtml(node) ==
    /\ PageAdds < MaxPageAdds
    /\ page' = HtmlPageAddHtml(page, ToHtml(node))
    /\ pageBodyLog' = Append(pageBodyLog, ToHtml(node))
    /\ pageOut' = None
    /\ nodePage' = NodeListPageAddHtml(nodePage, node)
    /\ UNCHANGED <<pageHeadLog, attrVars, contVars, tabVars, elemVars>>

\* HtmlContainer::add_container / with_container
PageAddContainer == \E c \in NestedContainers : PageAddHtml(c)

\* HtmlContainer::add_table / with_table
PageAddTable == PageAddHtml(TableNew)

\* HtmlContainer::add_paragraph / with_paragraph
PageAddParagraph == PageAddHtml(Paragraph(TextX, AttributesDefault))

\* HtmlContainer::add_raw / with_raw
PageAddRaw == PageAddHtml(Raw(TextX))

\* HtmlPage::add_html_head / with_html_head
PageAddHtmlHead(node) ==
    /\ PageAdds < MaxPageAdds
    /\ page' = HtmlPageAddHtmlHead(page, HeadContentToHtml(node))
    /\ pageHeadLog' = Append(pageHeadLog, HeadContentToHtml(node))
    /\ pageOut' = None
    /\ nodePage' = NodeListPageAddHead(nodePage, node)
    /\ UNCHANGED <<pageBodyLog, attrVars, contVars, tabVars, elemVars>>

\* HtmlPage::add_head_link / with_head_link
PageAddHeadLink == PageAddHtmlHead(HeadLink(TextX, TextY, AttributesDefault))

\* HtmlPage::add_head_link_attr / with_head_link_attr
PageAddHeadLinkAttr ==
    \E a \in AttributesFromIter(PairsId) :
        PageAddHtmlHead(HeadLink(TextX, TextY, a))

\* HtmlPage::add_meta / with_meta
PageAddMeta ==
    \E a \in AttributesFromIter(PairsClass) : PageAddHtmlHead(Meta(a))

\* HtmlPage::add_script_link / with_script_link
PageAddScriptLink == PageAddHtmlHead(ScriptLink(TextX, AttributesDefault))

\* HtmlPage::add_script_link_attr / with_script_link_attr
PageAddScriptLinkAttr ==
    \E a \in AttributesFromIter(PairsId) : PageAddHtmlHead(ScriptLink(TextX, a))

\* HtmlPage::add_script_literal / with_script_literal
PageAddScriptLiteral == PageAddHtmlHead(ScriptLiteral(TextY))

\* HtmlPage::add_style / with_style
PageAddStyle == PageAddHtmlHead(Style(TextY, AttributesDefault))

\* HtmlPage::add_style_attr / with_style_attr
PageAddStyleAttr ==
    \E a \in AttributesFromIter(PairsId) : PageAddHtmlHead(Style(TextY, a))

\* HtmlPage::add_stylesheet / with_stylesheet
PageAddStylesheet ==
    PageAddHtmlHead(HeadLink(TextX, Stylesheet, AttributesDefault))

\* HtmlPage::add_title / with_title
PageAddTitle == PageAddHtmlHead(Title(TextX))

PageSet(pg) ==
    /\ page' = pg
    /\ pageOut' = None
    /\ UNCHANGED <<pageHeadLog, pageBodyLog, nodePage, attrVars, contVars, tabVars, elemVars>>

\* HtmlPage::custom_doctype
PageCustomDoctype == PageSet(HtmlPageSetDoctype(page, CustomDoctype))

\* HtmlPage::custom_html_tag
PageCustomHtmlTag == PageSet(HtmlPageSetHtmlTag(page, CustomHtmlTag))

\* HtmlPage::doctype_html5
PageDoctypeHtml5 == PageSet(HtmlPageSetDoctype(page, HTML5))

\* HtmlPage::doctype_xhtml
PageDoctypeXhtml == PageSet(HtmlPageSetDoctype(page, XHTML_1_DOT_0))

\* HtmlPage::html_xml
PageHtmlXml == PageSet(HtmlPageSetHtmlTag(page, HTML_XML))

\* HtmlPage::with_version: a new page replaces the one under construction
PageWithVersion ==
    \E version \in HtmlVersions : \E pg \in VersionPages[version] :
        /\ page' = pg
        /\ pageHeadLog' = <<>>
        /\ pageBodyLog' = <<>>
        /\ pageOut' = None
        /\ nodePage' = NodeListPageNew
        /\ UNCHANGED <<attrVars, contVars, tabVars, elemVars>>

\* Html::to_html_string on the HtmlPage: takes &self
PageToHtmlString ==
    /\ pageOut' = Some(HtmlPageToHtml(page))
    /\ UNCHANGED <<page, pageHeadLog, pageBodyLog, nodePage, attrVars, contVars, tabVars, elemVars>>

NextPage ==
    \/ PageAddContainer
    \/ PageAddTable
    \/ PageAddParagraph
    \/ PageAddRaw
    \/ PageAddHeadLink
    \/ PageAddHeadLinkAttr
    \/ PageAddMeta
    \/ PageAddScriptLink
    \/ PageAddScriptLinkAttr
    \/ PageAddScriptLiteral
    \/ PageAddStyle
    \/ PageAddStyleAttr
    \/ PageAddStylesheet
    \/ PageAddTitle
    \/ PageCustomDoctype
    \/ PageCustomHtmlTag
    \/ PageDoctypeHtml5
    \/ PageDoctypeXhtml
    \/ PageHtmlXml
    \/ PageWithVersion
    \/ PageToHtmlString

(***************************************************************************)
(* The Attributes values under construction.                               *)
(***************************************************************************)
\* one name is a proper prefix of another
AttrNames == {<<"i", "d">>, <<"i", "d", "-", "x">>}

\* the pairs a caller gives: one name comes with two values
AttrPairsGiven ==
    { <<(<<"i", "d">>), (<<"m">>)>>,
      <<(<<"i", "d">>), (<<"c">>)>>,
      <<(<<"i", "d", "-", "x">>), (<<"m">>)>> }

\* the pair sequences a caller collects into a map: names may repeat
PairSeqs ==
    UNION {[1..n -> AttrPairsGiven] : n \in 0..MaxAttrPairs}

\* the sequence pairs in the order p
Reorder(pairs, p) == [i \in 1..Len(pairs) |-> pairs[p[i]]]

\* Attributes::from(map), map collected from a pair sequence; the second
\* value starts over
AttrsFrom ==
    \E pairs \in PairSeqs : \E a \in AttributesFrom(pairs) :
        /\ attrs' = a
        /\ attrPairs' = pairs
        /\ attrsOut' = None
        /\ attrs2' = AttributesDefault
        /\ attrPairs2' = <<>>
        /\ attrs2Out' = None
        /\ UNCHANGED <<focus, contVars, tabVars, pageVars, elemVars>>

\* Attributes::from(map) for the second value, map collected from the pairs
\* of the first value given in any order
Attrs2From ==
    \E p \in Perms(1..Len(attrPairs)) :
        \E a \in AttributesFrom(Reorder(attrPairs, p)) :
            /\ attrs2' = a
            /\ attrPairs2' = Reorder(attrPairs, p)
            /\ attrs2Out' = None
            /\ UNCHANGED <<focus, attrs, attrPairs, attrsOut,
                           contVars, tabVars, pageVars, elemVars>>

\* Attributes::empty()
AttrsEmpty ==
    /\ attrs' = AttributesEmpty
    /\ attrPairs' = <<>>
    /\ attrsOut' = None
    /\ attrs2' = AttributesDefault
    /\ attrPairs2' = <<>>
    /\ attrs2Out' = None
    /\ UNCHANGED <<focus, contVars, tabVars, pageVars, elemVars>>

\* format!("{}", attrs): Display takes &self
AttrsDisplay ==
    /\ attrsOut' = Some(AttributesDisplay(attrs))
    /\ UNCHANGED <<focus, attrs, attrPairs, attrs2, attrPairs2, attrs2Out,
                   contVars, tabVars, pageVars, elemVars>>

\* format!("{}", attrs2)
Attrs2Display ==
    /\ attrs2Out' = Some(AttributesDisplay(attrs2))
    /\ UNCHANGED <<focus, attrs, attrPairs, attrsOut, attrs2, attrPairs2,
                   contVars, tabVars, pageVars, elemVars>>

NextAttributes ==
    \/ AttrsFrom
    \/ Attrs2From
    \/ AttrsEmpty
    \/ AttrsDisplay
    \/ Attrs2Display

(***************************************************************************)
(* The HtmlElement under construction.                                     *)
(***************************************************************************)
ElementTags == {"Div", "ParagraphText"}

\* elements built beforehand and given to add_child
ChildElements ==
    { HtmlElementNew("LineBreak"),
      ElementAddChild(ElementAddAttribute(HtmlElementNew("Div"),
                                          <<"i", "d">>, <<"m">>),
                      ChildRaw(TextY)) }

\* the raw strings given as children: a text and the empty string
RawTexts == {TextX, <<>>}

\* HtmlElement::new(tag)
InitElem ==
    /\ elem \in {HtmlElementNew(tag) : tag \in ElementTags}
    /\ elemOut = None

ElemChange(e) ==
    /\ elem' = e
    /\ elemOut' = None
    /\ UNCHANGED <<attrVars, contVars, tabVars, pageVars>>

\* HtmlElement::add_child / with_child with HtmlChild::Raw
ElemAddChildRaw ==
    /\ Len(elem.children) < MaxChildren
    /\ \E text \in RawTexts : ElemChange(ElementAddChild(elem, ChildRaw(text)))

\* HtmlElement::add_child / with_child with HtmlChild::Element
ElemAddChildElement ==
    /\ Len(elem.children) < MaxChildren
    /\ \E e \in ChildElements : ElemChange(ElementAddChild(elem, ChildElement(e)))

\* impl HtmlContainer for HtmlElement: add_html
ElemAddHtml ==
    /\ Len(elem.children) < MaxChildren
    /\ ElemChange(ElementAddHtml(elem,
                                 ToHtml(Paragraph(TextY, AttributesDefault))))

\* HtmlElement::add_attribute / with_attribute
ElemAddAttribute ==
    /\ Len(elem.attributes) < MaxAttrPairs
    /\ \E kv \in AttrPairsGiven :
           ElemChange(ElementAddAttribute(elem, kv[1], kv[2]))

\* Html::to_html_string on the HtmlElement: takes &self
ElemToHtmlString ==
    /\ elemOut' = Some(ElementToHtml(elem))
    /\ UNCHANGED <<elem, attrVars, contVars, tabVars, pageVars>>

NextElement ==
    \/ ElemAddChildRaw
    \/ ElemAddChildElement
    \/ ElemAddHtml
    \/ ElemAddAttribute
    \/ ElemToHtmlString

(***************************************************************************)
(* A Container built from containers, tables, elements and leaf helpers    *)
(* only, with text free of markup characters.                              *)
(***************************************************************************)
\* containers built beforehand: a list holding a div that holds a paragraph
\* and a list; a div holding a list that holds an image and a header
TreeContainers ==
    { ContainerAddHtml(
          ContainerAddHtml(
              ContainerNew("UnorderedList"),
              ContainerAddHtml(ContainerNew("Div"),
                               Paragraph(TextX, AttributesDefault))),
          ContainerAddHtml(ContainerNew("OrderedList"),
                           Header(2, TextX, AttributesDefault))),
      ContainerAddHtml(
          ContainerNew("Div"),
          ContainerAddHtml(
              ContainerAddHtml(ContainerNew("OrderedList"),
                               Image(TextX, TextX, AttributesDefault)),
              Header(2, TextX, AttributesDefault))) }

\* a table built beforehand: two body rows, a header row and a caption
TreeTable ==
    TableAddCaption(TableAddHeaderRow(TableFrom(<< <<1, 2>>, <<>> >>), <<1>>),
                    ToHtml(Paragraph(TextX, AttributesDefault)))

\* elements built beforehand: an image, and a div with an attribute
\* that holds a horizontal rule and a paragraph
TreeElements ==
    { HtmlElementNew("Image"),
      ElementAddHtml(
          ElementAddChild(ElementAddAttribute(HtmlElementNew("Div"),
                                              <<"i", "d">>, <<"m">>),
                          ChildElement(HtmlElementNew("HorizontalRule"))),
          ToHtml(Paragraph(TextX, AttributesDefault))) }

\* HtmlContainer::add_container / with_container
TreeAddContainer == \E c \in TreeContainers : ContAddHtml(c)

\* HtmlContainer::add_table / with_table
TreeAddTable == ContAddHtml(TreeTable)

\* HtmlContainer::add_html / with_html with an HtmlElement
TreeAddElement == \E e \in TreeElements : ContAddHtml(e)

\* HtmlContainer::add_image / with_image
TreeAddImage == ContAddHtml(Image(TextX, TextX, AttributesDefault))

NextTree ==
    \/ TreeAddContainer
    \/ TreeAddTable
    \/ TreeAddElement
    \/ TreeAddImage
    \/ ContAddHeader
    \/ ContWithAttributes
    \/ ContToHtmlString

(***************************************************************************)
(* Specifications: a program builds one object, named by focus.            *)
(***************************************************************************)
Focuses == {"Attributes", "Element", "Container", "Table", "Page"}

InitFor(f) ==
    /\ focus = f
    /\ InitAttrs
    /\ InitElem
    /\ InitCont(f)
    /\ InitTab
    /\ InitPage

Init == \E f \in Focuses : InitFor(f)

InitContainer == InitFor("Container")

SpecContainer == InitContainer /\ [][NextContainer]_vars

SpecTree == InitContainer /\ [][NextTree]_vars

InitTable == InitFor("Table")

SpecTable == InitTable /\ [][NextTable]_vars

InitPageOnly == InitFor("Page")

SpecPage == InitPageOnly /\ [][NextPage]_vars

\* the two kinds of attribute collection: Attributes and the attribute list
\* of an HtmlElement
InitAttributeSets == \E f \in {"Attributes", "Element"} : InitFor(f)

NextAttributeSets ==
    \/ focus = "Attributes" /\ NextAttributes
    \/ focus = "Element" /\ NextElement

SpecAttributeSets == InitAttributeSets /\ [][NextAttributeSets]_vars

Next ==
    \/ focus = "Attributes" /\ NextAttributes
    \/ focus = "Element" /\ NextElement
    \/ focus = "Container" /\ NextContainer
    \/ focus = "Table" /\ NextTable
    \/ focus = "Page" /\ NextPage

Spec == Init /\ [][Next]_vars

(***************************************************************************)
(* Properties of Container.                                                *)
(***************************************************************************)
LiOpen == <<"<", "l", "i", ">">>

LiClose == <<"<", "/", "l", "i", ">">>

IsList(c) == c.tag \in {"OrderedList", "UnorderedList"}

RECURSIVE SumCounts(_, _)
\* occurrences of s inside the renderings ss, added up
SumCounts(s, ss) ==
    IF ss = <<>> THEN 0 ELSE Count(s, Head(ss)) + SumCounts(s, Tail(ss))

\* the children of cont as a list container renders them
WrappedLog == [i \in 1..Len(contLog) |-> LiOpen \o contLog[i] \o LiClose]

\* the opening tag of cont with the pairs of the last with_attributes call,
\* in the given order of names
OpenTagWith(order) ==
    <<"<">> \o ContainerTypeStr(cont.tag)
        \o Concat([i \in 1..Len(order) |-> AttrFragment(order[i][1], order[i][2])])
        \o <<">">>

LastAttrPairs == IF contAttrLog = None THEN {} ELSE PairSet(contAttrLog[1])

CloseTag == <<"<", "/">> \o ContainerTypeStr(cont.tag) \o <<">">>

\* C1: a rendered OrderedList or UnorderedList container puts each direct
\* child's rendering inside exactly one <li>...</li> pair of its own, and a
\* rendered container of any other type adds no <li> or </li> of its own.
C1_ListItemWrapping ==
    contOut # None =>
        LET ownOpen == Count(LiOpen, contOut[1]) - SumCounts(LiOpen, contLog)
            ownClose == Count(LiClose, contOut[1]) - SumCounts(LiClose, contLog)
        IN  IF IsList(cont)
            THEN /\ ownOpen = Len(contLog)
                 /\ ownClose = Len(contLog)
                 /\ EndsWith(contOut[1], Concat(WrappedLog) \o CloseTag)
            ELSE /\ ownOpen = 0
                 /\ ownClose = 0
                 /\ EndsWith(contOut[1], Concat(contLog) \o CloseTag)

C1_Witness ==
    /\ contOut # None
    /\ IsList(cont)
    /\ Len(cont.elements) = 2
    /\ cont.elements[1].kind = "Container"

\* C2: the rendering of a container is its opening tag, then the renderings
\* of the added elements in the order of the add calls, none dropped,
\* repeated or moved (each inside its list item when the container is a
\* list), then its closing tag.
C2_InsertionOrder ==
    contOut # None =>
        \E order \in Perms(LastAttrPairs) :
            contOut[1] = OpenTagWith(order)
                        \o Concat(IF IsList(cont) THEN WrappedLog ELSE contLog)
                        \o CloseTag

C2_Witness ==
    /\ contOut # None
    /\ Len(contLog) = 2
    /\ contLog[1] # contLog[2]
    /\ ~ IsList(cont)

\* C7: after with_attributes calls the rendered opening tag carries exactly
\* the pairs of the last call, each once, and none of an earlier call, and
\* the children render as they did when they were added.
C7_WithAttributesReplaces ==
    (contOut # None /\ contAttrLog # None) =>
        /\ \E order \in Perms(LastAttrPairs) :
               StartsWith(contOut[1], OpenTagWith(order))
        /\ Len(cont.elements) = Len(contLog)
        /\ \A i \in 1..Len(contLog) : ToHtml(cont.elements[i]) = contLog[i]

C7_Witness ==
    /\ contOut # None
    /\ contAttrLog = Some(PairsClass)
    /\ contAttrPrev = Some(PairsId)
    /\ Len(cont.elements) = 1
    /\ ~ Contains(AttrFragment(PairsId[1][1], PairsId[1][2]), contOut[1])

(***************************************************************************)
(* Properties of Table.                                                    *)
(***************************************************************************)
\* first position of s in t, 0 when s does not occur
IndexOf(s, t) ==
    LET at == {i \in 1..Len(t) : OccursAt(s, t, i)}
    IN  IF at = {} THEN 0 ELSE CHOOSE i \in at : \A j \in at : i <= j

TheadOpen == <<"<", "t", "h", "e", "a", "d">>

TbodyOpen == <<"<", "t", "b", "o", "d", "y">>

TfootOpen == <<"<", "t", "f", "o", "o", "t">>

TfootClose == <<"<", "/", "t", "f", "o", "o", "t", ">">>

CaptionOpen == <<"<", "c", "a", "p", "t", "i", "o", "n">>

CaptionEnd ==
    <<"<", "/", "c", "a", "p", "t", "i", "o", "n", ">",
      "<", "/", "t", "a", "b", "l", "e", ">">>

FooterHasData(t) == t.tfoot.children # <<>> \/ t.tfoot.attributes # <<>>

\* the fragments of a pair sequence, in its order
Fragments(pairs) ==
    Concat([i \in 1..Len(pairs) |-> AttrFragment(pairs[i][1], pairs[i][2])])

\* C3: a rendered table holds a tfoot element exactly when its footer has a
\* row or an attribute; with no row and no attribute the word tfoot does not
\* occur at all, and with rows the one tfoot element holds exactly the rows.
C3_FooterEmission ==
    tabOut # None =>
        /\ Count(TfootOpen, tabOut[1]) = (IF FooterHasData(tab) THEN 1 ELSE 0)
        /\ ~ FooterHasData(tab) => ~ Contains(<<"t", "f", "o", "o", "t">>, tabOut[1])
        /\ tab.tfoot.children # <<>> =>
               /\ Count(TfootClose, tabOut[1]) = 1
               /\ Contains(TfootOpen \o Fragments(tab.tfoot.attributes) \o <<">">>
                               \o WriteChildren(tab.tfoot) \o TfootClose,
                           tabOut[1])

C3_Witness ==
    /\ tabOut # None
    /\ Len(tab.tfoot.children) = 1
    /\ tab.tfoot.attributes = <<>>
    /\ Len(tab.tbody.children) = 1
    /\ Count(TfootOpen, tabOut[1]) = 1

\* C4: in a rendered table thead comes first, then tbody, then tfoot when it
\* is emitted, then the caption when there is one, and the caption closes
\* right before the table does.
C4_RegionOrder ==
    tabOut # None =>
        LET out == tabOut[1]
            iHead == IndexOf(TheadOpen, out)
            iBody == IndexOf(TbodyOpen, out)
            iFoot == IndexOf(TfootOpen, out)
            iCap == IndexOf(CaptionOpen, out)
        IN  /\ 0 < iHead /\ iHead < iBody
            /\ Len(tab.table.attributes) = 0 =>
                   iHead = Len(<<"<", "t", "a", "b", "l", "e", ">">>) + 1
            /\ FooterHasData(tab) => iBody < iFoot
            /\ tab.caption # None =>
                   /\ iBody < iCap
                   /\ FooterHasData(tab) => iFoot < iCap
                   /\ Count(CaptionOpen, out) = 1
                   /\ EndsWith(out, CaptionEnd)
            /\ tab.caption = None => iCap = 0

C4_Witness ==
    /\ tabOut # None
    /\ tab.caption # None
    /\ Len(tab.tfoot.children) = 1
    /\ Len(tab.thead.children) = 1
    /\ tab.table.attributes # <<>>

RegionTag(r) ==
    CASE r = "table" -> <<"<", "t", "a", "b", "l", "e">>
      [] r = "thead" -> TheadOpen
      [] r = "tbody" -> TbodyOpen
      [] r = "tfoot" -> TfootOpen

\* C8: after successive calls of one attribute setter of a Table, the
\* rendered tag of that region carries only the pairs of the last call.
C8_SettersOverride ==
    tabOut # None =>
        \A r \in Regions :
            tabAttrLast[r] # None =>
                \/ Contains(RegionTag(r) \o Fragments(tabAttrLast[r][1]) \o <<">">>,
                            tabOut[1])
                \/ Contains(RegionTag(r) \o Fragments(tabAttrLast[r][1])
                                \o <<"/", ">">>,
                            tabOut[1])

(***************************************************************************)
(* Properties of HtmlPage.                                                 *)
(***************************************************************************)
DefaultPageString ==
    <<"<", "!", "D", "O", "C", "T", "Y", "P", "E", " ", "h", "t", "m", "l",
      ">", "<", "h", "t", "m", "l", ">", "<", "h", "e", "a", "d", ">", "<",
      "/", "h", "e", "a", "d", ">", "<", "b", "o", "d", "y", ">", "<", "/",
      "b", "o", "d", "y", ">", "<", "/", "h", "t", "m", "l", ">">>

\* the page has had no addition and no effective setter call
FreshPage ==
    /\ pageHeadLog = <<>>
    /\ pageBodyLog = <<>>
    /\ page.doctype = HTML5
    /\ page.html = HTML_PLAIN_TAG

\* C5: the rendering of an HtmlPage is its doctype, its opening html tag,
\* "<head>", the renderings of the head additions in order, "</head><body>",
\* the renderings of the body additions in order and "</body></html>"; a
\* page with no addition and the default doctype and html tag renders
\* "<!DOCTYPE html><html><head></head><body></body></html>".
C5_PageSkeleton ==
    pageOut # None =>
        /\ pageOut[1] =
              page.doctype \o page.html \o <<"<", "h", "e", "a", "d", ">">>
                \o Concat(pageHeadLog)
                \o <<"<", "/", "h", "e", "a", "d", ">",
                     "<", "b", "o", "d", "y", ">">>
                \o Concat(pageBodyLog)
                \o <<"<", "/", "b", "o", "d", "y", ">",
                     "<", "/", "h", "t", "m", "l", ">">>
        /\ FreshPage => pageOut[1] = DefaultPageString

\* a page with the XHTML doctype, a changed html tag, one head addition and
\* one body addition has been rendered
C5_Witness ==
    /\ pageOut # None
    /\ page.doctype = XHTML_1_DOT_0
    /\ page.html # HTML_PLAIN_TAG
    /\ Len(pageHeadLog) = 1
    /\ Len(pageBodyLog) = 1

(***************************************************************************)
(* Properties of rendering as a read.                                      *)
(***************************************************************************)
\* a step that ends with a rendering of the object x on record is a
\* to_html_string call: it leaves the object as it was, and when a rendering
\* was on record before it, it returns that same string
RenderStep(out, outNext, x, xNext) ==
    outNext # None =>
        /\ xNext = x
        /\ out # None => outNext = out

\* C6: to_html_string leaves a Container, an HtmlElement, a Table and an
\* HtmlPage as they were (tag, attributes, children, row groups, caption,
\* doctype, head and body), and a call that follows another with no change
\* in between returns the same string.
C6_RenderNonDestructive ==
    [][ /\ RenderStep(contOut, contOut', cont, cont')
        /\ RenderStep(elemOut, elemOut', elem, elem')
        /\ RenderStep(tabOut, tabOut', tab, tab')
        /\ RenderStep(pageOut, pageOut', page, page') ]_vars

\* a table with attributes, a body row, a footer row and a caption has been
\* rendered
C6_Witness ==
    /\ focus = "Table"
    /\ tabOut # None
    /\ tab.table.attributes # <<>>
    /\ tab.tbody.children # <<>>
    /\ tab.tfoot.children # <<>>
    /\ tab.caption # None

(***************************************************************************)
(* Properties of attribute collections.                                    *)
(***************************************************************************)
\* the start of the fragment of an attribute name
FragmentStart(name) == <<" ">> \o name \o <<"=", "\"">>

NamesOf(pairs) == {pairs[i][1] : i \in 1..Len(pairs)}

\* how many pairs of the sequence carry the name
Times(name, pairs) == Cardinality({i \in 1..Len(pairs) : pairs[i][1] = name})

\* the value of the last pair of the sequence carrying the name
LastValue(name, pairs) ==
    pairs[CHOOSE i \in 1..Len(pairs) :
              /\ pairs[i][1] = name
              /\ \A j \in (i + 1)..Len(pairs) : pairs[j][1] # name][2]

\* the attribute part of the opening tag of a rendered element
OpeningAttributes(out, e) ==
    SubSeq(out, 2 + Len(HtmlTagStr(e.tag)), IndexOf(<<">">>, out) - 1)

\* exactly one fragment for each name of the pairs, none for other names
OneFragmentPerName(out, pairs) ==
    \A name \in AttrNames :
        Count(FragmentStart(name), out) =
            (IF name \in NamesOf(pairs) THEN 1 ELSE 0)

C11_SortedByName ==
    attrsOut # None =>
        \A n1 \in DOMAIN attrs.map, n2 \in DOMAIN attrs.map :
            StrLess(n1, n2) =>
                IndexOf(FragmentStart(n1), attrsOut[1])
                    < IndexOf(FragmentStart(n2), attrsOut[1])

\* a single space, the name, an equals sign and the value in double quotes
QuotedPair(name, value) ==
    <<" ">> \o name \o <<"=">> \o <<"\"">> \o value \o <<"\"">>

\* C12: an empty Attributes value is formatted to the empty string; a
\* non-empty one, and the attribute list of an element, to one
\* space-name-equals-quoted-value fragment per pair and nothing else: no
\* other separator and no trailing space.
C12_FragmentFormat ==
    /\ attrsOut # None =>
           /\ attrs.map = EmptyMap => attrsOut[1] = <<>>
           /\ \E order \in Perms(DOMAIN attrs.map) :
                  attrsOut[1] =
                      Concat([i \in 1..Len(order) |->
                                 QuotedPair(order[i], attrs.map[order[i]])])
    /\ elemOut # None =>
           LET given ==
                   Concat([i \in 1..Len(elem.attributes) |->
                              QuotedPair(elem.attributes[i][1],
                                         elem.attributes[i][2])])
           IN  OpeningAttributes(elemOut[1], elem)
                   = (IF elem.children = <<>> THEN given \o <<"/">> ELSE given)

\* an Attributes value of two names has been formatted
C12_Witness ==
    /\ attrsOut # None
    /\ Cardinality(DOMAIN attrs.map) = 2
    /\ Len(attrsOut[1]) > 0

(***************************************************************************)
(* Properties of the rows of a Table.                                      *)
(***************************************************************************)
\* the cells of the values, each in the tag given, in order
CellsOf(values, tag) ==
    Concat([i \in 1..Len(values) |->
               <<"<">> \o tag \o <<">">> \o U8ToString(values[i])
                   \o <<"<", "/">> \o tag \o <<">">>])

\* a tr holding one cell per value; a tr with no cell closes itself
RowString(values, tag) ==
    IF values = <<>> THEN <<"<", "t", "r", "/", ">">>
    ELSE <<"<", "t", "r", ">">> \o CellsOf(values, tag)
             \o <<"<", "/", "t", "r", ">">>

RECURSIVE FoldBodyRows(_, _)
\* with_body_row applied to t for each inner sequence in turn
FoldBodyRows(t, source) ==
    IF source = <<>> THEN t
    ELSE FoldBodyRows(TableAddBodyRow(t, Head(source)), Tail(source))

\* C13: Table::from of a 2-D sequence gives a table whose body holds one row
\* per inner sequence in the same order, each value in a td cell in order,
\* with an empty header group, no footer, no caption and no attribute; it is
\* the table with_body_row builds from Table::new() over the inner sequences.
C13_TableFrom ==
    tabSource # None =>
        LET source == tabSource[1]
            rows == Concat([i \in 1..Len(source) |->
                               RowString(source[i], <<"t", "d">>)])
        IN  /\ Len(tab.tbody.children) = Len(source)
            /\ \A i \in 1..Len(source) :
                   ElementToHtml(tab.tbody.children[i].e)
                       = RowString(source[i], <<"t", "d">>)
            /\ tab.thead = HtmlElementNew("TableHeader")
            /\ tab.tfoot = HtmlElementNew("TableFooter")
            /\ tab.table = HtmlElementNew("Table")
            /\ tab.caption = None
            /\ tab = FoldBodyRows(TableNew, source)
            /\ tabOut # None =>
                   tabOut[1] =
                       <<"<", "t", "a", "b", "l", "e", ">",
                         "<", "t", "h", "e", "a", "d", "/", ">">>
                       \o (IF source = <<>>
                           THEN <<"<", "t", "b", "o", "d", "y", "/", ">">>
                           ELSE <<"<", "t", "b", "o", "d", "y", ">">> \o rows
                                    \o <<"<", "/", "t", "b", "o", "d", "y", ">">>)
                       \o <<"<", "/", "t", "a", "b", "l", "e", ">">>

\* the table built from a row of two values and an empty row has been
\* rendered
C13_Witness ==
    /\ tabSource = Some(<< <<1, 2>>, <<>> >>)
    /\ tabOut # None

\* the values rows are made of: two values, one value, none
RowValues == RowArgs \cup BodyRowArgs \cup {<<2>>}

Groups == {"thead", "tbody", "tfoot"}

\* t2 is t with one row more at the end of the group g, that row rendering
\* as a tr of one cell per value in the tag given, and all else as in t
RowAppended(t2, t, g, values, tag) ==
    /\ Len(t2[g].children) = Len(t[g].children) + 1
    /\ SubSeq(t2[g].children, 1, Len(t[g].children)) = t[g].children
    /\ ElementToHtml(t2[g].children[Len(t2[g].children)].e)
           = RowString(values, tag)
    /\ Len(t2[g].children[Len(t2[g].children)].e.children) = Len(values)
    /\ t2[g].attributes = t[g].attributes
    /\ \A other \in Groups \ {g} : t2[other] = t[other]
    /\ t2.table = t.table
    /\ t2.caption = t.caption

\* C14: on every table, add_header_row and add_footer_row append to their
\* group one tr of th cells and add_body_row appends one tr of td cells, one
\* cell per value in the order of the values, and leave the rows already in
\* any group, the attributes and the caption as they were.
C14_RowCells ==
    \A values \in RowValues :
        /\ RowAppended(TableAddHeaderRow(tab, values), tab, "thead", values,
                       <<"t", "h">>)
        /\ RowAppended(TableAddBodyRow(tab, values), tab, "tbody", values,
                       <<"t", "d">>)
        /\ RowAppended(TableAddFooterRow(tab, values), tab, "tfoot", values,
                       <<"t", "h">>)

\* a table holding a header row of two th cells, added by add_header_row
\* after a body row, has been rendered
C14_Witness ==
    /\ tabOut # None
    /\ Len(tab.tbody.children) = 1
    /\ Len(tab.thead.children) = 1
    /\ ElementToHtml(tab.thead.children[1].e) = RowString(<<1, 2>>, <<"t", "h">>)
    /\ Contains(RowString(<<1, 2>>, <<"t", "h">>), tabOut[1])

\* the number of cells a rendered row shows
CellsShown(rowString) ==
    Count(<<"<", "t", "d">>, rowString) + Count(<<"<", "t", "h">>, rowString)

\* a row built from values, of td or of th cells, shows one cell per value
BuiltRowsShowTheirCells ==
    \A values \in RowValues :
        /\ CellsShown(ElementToHtml(RowOf(values, "Data"))) = Len(values)
        /\ CellsShown(ElementToHtml(RowOf(values, "Header"))) = Len(values)

\* C15: the length of a row is never checked: on every table, whatever the
\* lengths of the rows it holds, a row of any length, the empty row
\* included, is added to the header, the body or the footer, and every row
\* of a rendered table shows exactly its own number of cells.
C15_NoRowLengthCheck ==
    /\ BuiltRowsShowTheirCells
    /\ \A values \in RowValues :
           /\ Len(TableAddHeaderRow(tab, values).thead.children)
                  = Len(tab.thead.children) + 1
           /\ Len(TableAddBodyRow(tab, values).tbody.children)
                  = Len(tab.tbody.children) + 1
           /\ Len(TableAddFooterRow(tab, values).tfoot.children)
                  = Len(tab.tfoot.children) + 1
    /\ tabOut # None =>
           \A g \in Groups : \A i \in 1..Len(tab[g].children) :
               LET rowString == ElementToHtml(tab[g].children[i].e)
               IN  /\ Contains(rowString, tabOut[1])
                   /\ CellsShown(rowString)
                          = Len(tab[g].children[i].e.children)

\* a table whose body holds a row of two cells and a row of no cell has been
\* rendered
C15_Witness ==
    /\ tabOut # None
    /\ Len(tab.tbody.children) = 2
    /\ Len(tab.tbody.children[1].e.children) = 2
    /\ Len(tab.tbody.children[2].e.children) = 0

(***************************************************************************)
(* Content is rendered verbatim.                                           *)
(***************************************************************************)
\* the values of an attribute collection
ValuesOf(a) == {a.map[k] : k \in DOMAIN a.map}

RECURSIVE GivenStrings(_)
\* the strings that were passed to the constructor of a stored node, and of
\* the nodes nested in it
GivenStrings(n) ==
    CASE n.kind = "Header" -> {n.content} \cup ValuesOf(n.attr)
      [] n.kind = "Image" -> {n.src, n.alt} \cup ValuesOf(n.attr)
      [] n.kind = "Link" -> {n.href, n.content} \cup ValuesOf(n.attr)
      [] n.kind \in {"Paragraph", "Preformatted"} ->
            {n.content} \cup ValuesOf(n.attr)
      [] n.kind = "Raw" -> {n.content}
      [] n.kind = "Container" ->
            ValuesOf(n.attr)
                \cup UNION {GivenStrings(n.elements[i]) : i \in 1..Len(n.elements)}
      [] OTHER -> {}

\* C16: a rendered container contains, character for character, every text,
\* attribute value, href, src, alt and raw string that was passed to the
\* methods that built it, markup characters, quotes and runs of spaces
\* included.
C16_NoEscaping ==
    contOut # None =>
        \A str \in GivenStrings(cont) : Contains(str, contOut[1])

\* a raw string and a header with an attribute, both holding markup
\* characters and a run of spaces, have been added and rendered
C16_Witness ==
    /\ contOut # None
    /\ Len(cont.elements) = 2
    /\ cont.elements[1] = Raw(TextY)
    /\ cont.elements[2].kind = "Header"
    /\ TextY \in GivenStrings(cont)
    /\ PairsTitle[1][2] \in GivenStrings(cont)
    /\ Contains(<<" ", " ">>, contOut[1])
    /\ Contains(<<"<", "&">>, contOut[1])

(***************************************************************************)
(* The consuming methods against the mutating ones.                        *)
(***************************************************************************)
\* the Container or HtmlElement that the program is building, as an
\* implementor of HtmlContainer
Builders ==
    CASE focus = "Container" -> {cont}
      [] focus = "Element" -> {elem}
      [] OTHER -> {}

\* the rows that the table holds in its body, and the rows built beforehand
Rows == {tab.tbody.children[i].e : i \in 1..Len(tab.tbody.children)}
            \cup CustomRows

\* with_x returns the value that add_x leaves behind, and the two render to
\* the same string
SameValue(with, add) ==
    /\ with = add
    /\ ToHtml(with) = ToHtml(add)

\* C17: on every container, element, row and table the program builds,
\* and for every argument, with_html, with_container, with_table,
\* with_header, with_raw, with_child, with_attribute, with_cell,
\* with_body_row and with_caption return the value that the add_ method of
\* the same name leaves behind, which renders to the same string;
\* add_container and add_table leave what add_html leaves.
C17_WithIsAdd ==
    /\ \A self \in Builders :
          /\ \A n \in NestedContainers :
                /\ SameValue(WithHtml(self, n), AddHtml(self, n))
                /\ WithContainer(self, n) = AddContainer(self, n)
                /\ AddContainer(self, n) = AddHtml(self, n)
          /\ \A t \in {TableFrom(<< <<1, 2>> >>)} :
                /\ WithTable(self, t) = AddTable(self, t)
                /\ AddTable(self, t) = AddHtml(self, t)
          /\ WithHeader(self, 255, TextY) = AddHeader(self, 255, TextY)
          /\ WithRaw(self, TextY) = AddRaw(self, TextY)
    /\ focus = "Element" =>
          /\ \A child \in {ChildRaw(TextY)}
                            \cup {ChildElement(c) : c \in ChildElements} :
                ElementWithChild(elem, child) = ElementAddChild(elem, child)
          /\ \A kv \in AttrPairsGiven :
                SameValue(ElementWithAttribute(elem, kv[1], kv[2]),
                          ElementAddAttribute(elem, kv[1], kv[2]))
    /\ focus = "Table" =>
          /\ \A values \in BodyRowArgs :
                TableWithBodyRow(tab, values) = TableAddBodyRow(tab, values)
          /\ \A row \in Rows, cellType \in {"Header", "Data"} :
                SameValue(RowWithCell(row, TableCellNew(cellType)),
                          RowAddCell(row, TableCellNew(cellType)))
          /\ \A caption \in Captions :
                TableWithCaption(tab, ToHtml(caption))
                    = TableAddCaption(tab, ToHtml(caption))

\* with_header on a container that holds a node returns the container with
\* the header after that node
C17_Witness ==
    /\ focus = "Container"
    /\ Len(cont.elements) = 1
    /\ WithHeader(cont, 1, TextX).elements
           = <<cont.elements[1], Header(1, TextX, AttributesDefault)>>
    /\ AddHeader(cont, 1, TextX) = WithHeader(cont, 1, TextX)
    /\ Contains(<<"<", "h", "1", ">", "x", "<", "/", "h", "1", ">", "<", "/">>
                    \o ContainerTypeStr(cont.tag) \o <<">">>,
                ToHtml(WithHeader(cont, 1, TextX)))

(***************************************************************************)
(* The two regions of a page.                                              *)
(***************************************************************************)
\* a step of a head helper: the head log grows by the rendering of the node
HeadStep == Len(pageHeadLog') = Len(pageHeadLog) + 1

\* a step of an HtmlContainer method on the page: the body log grows
BodyStep == Len(pageBodyLog') = Len(pageBodyLog) + 1

\* C18: a head helper (title, style, stylesheet, script, meta, head link)
\* appends to the head and leaves body, doctype and html tag as they were;
\* an HtmlContainer method on the page appends to the body and leaves head,
\* doctype and html tag as they were; no step does both.
C18_RegionsApart ==
    [][ /\ HeadStep =>
              /\ page'.head = page.head \o pageHeadLog'[Len(pageHeadLog')]
              /\ page'.body = page.body
              /\ page'.doctype = page.doctype
              /\ page'.html = page.html
        /\ BodyStep =>
              /\ page'.body = page.body \o pageBodyLog'[Len(pageBodyLog')]
              /\ page'.head = page.head
              /\ page'.doctype = page.doctype
              /\ page'.html = page.html
        /\ ~ (HeadStep /\ BodyStep) ]_vars

\* a page with the default doctype and html tag whose head and body each
\* hold one addition, the two renderings being different
C18_Witness ==
    /\ page.doctype = HTML5
    /\ page.html = HTML_PLAIN_TAG
    /\ Len(pageHeadLog) = 1
    /\ Len(pageBodyLog) = 1
    /\ page.head = pageHeadLog[1]
    /\ page.body = pageBodyLog[1]
    /\ page.head # page.body
    /\ page.head # <<>>

(***************************************************************************)
(* The versions of a page.                                                 *)
(***************************************************************************)
\* the names of an attribute collection
NamesIn(a) == DOMAIN a.map

Xmlns == <<"x", "m", "l", "n", "s">>

XmlnsXsi == <<"x", "m", "l", "n", "s", ":", "x", "s", "i">>

XsiSchemaLocation ==
    <<"x", "s", "i", ":", "s", "c", "h", "e", "m", "a", "L", "o", "c", "a",
      "t", "i", "o", "n">>

XmlLang == <<"x", "m", "l", ":", "l", "a", "n", "g">>

\* the attribute names that a version is to contribute
VersionNames(version) ==
    CASE version = "XHTML1_0" -> {Xmlns}
      [] version = "XHTML1_1" -> {Xmlns, XmlnsXsi, XsiSchemaLocation, XmlLang}
      [] OTHER -> {}

\* the doctype strings of two different versions are different
DoctypesDistinct ==
    \A v, w \in HtmlVersions :
        v # w => HtmlVersionDoctype(v) # HtmlVersionDoctype(w)

\* each version contributes the attributes of its list, and no other
VersionAttributes ==
    \A v \in HtmlVersions : \A a \in HtmlVersionHtmlAttrs(v) :
        NamesIn(a) = VersionNames(v)

\* a page of version HTML5 is the default page
Html5IsDefault ==
    \A pg \in HtmlPageWithVersion("HTML5") :
        /\ pg = HtmlPageDefault
        /\ HtmlPageToHtml(pg) = DefaultPageString

\* C19: the four versions have four different doctype strings; HTML5 and
\* HTML4 contribute no attribute, XHTML1_0 exactly xmlns, XHTML1_1 exactly
\* xmlns, xmlns:xsi, xsi:schemaLocation and xml:lang; a page of version HTML5
\* is the default page and renders as it does; a rendered page fresh from
\* with_version starts with the doctype of its version and an html tag that
\* carries each of the version's attributes once.
C19_Versions ==
    /\ DoctypesDistinct
    /\ VersionAttributes
    /\ Html5IsDefault
    /\ \A v \in HtmlVersions :
          (pageOut # None /\ page \in VersionPages[v]) =>
              /\ StartsWith(pageOut[1],
                            HtmlVersionDoctype(v) \o <<"<", "h", "t", "m", "l">>)
              /\ \A name \in VersionNames(v) :
                    Count(<<" ">> \o name \o <<"=", "\"">>, pageOut[1]) = 1
              /\ v = "HTML5" => pageOut[1] = DefaultPageString
              /\ v = "XHTML1_0" =>
                    StartsWith(pageOut[1], XHTML_1_DOT_0 \o HTML_XML)

\* a page of version XHTML1_1, fresh from with_version, has been rendered
C19_Witness ==
    /\ pageOut # None
    /\ page \in VersionPages["XHTML1_1"]
    /\ page.doctype # XHTML_1_DOT_0
    /\ Contains(XmlnsXsi, page.html)
    /\ Contains(XmlLang, pageOut[1])

(***************************************************************************)
(* The two forms of a rendered element.                                    *)
(***************************************************************************)
\* the opening of the element's tag, up to its last attribute
TagOpening(e) ==
    <<"<">> \o HtmlTagStr(e.tag)
        \o Concat([i \in 1..Len(e.attributes) |->
                      <<" ">> \o e.attributes[i][1] \o <<"=", "\"">>
                          \o e.attributes[i][2] \o <<"\"">>])

\* the closing tag of the element
TagClosing(e) == <<"<", "/">> \o HtmlTagStr(e.tag) \o <<">">>

\* C20: a rendered element is <tag attrs/> exactly when it has no child;
\* with one child or more it is <tag attrs>, the children, </tag>, also when
\* every child renders to the empty string.
C20_SelfClosingIffNoChildren ==
    elemOut # None =>
        /\ elem.children = <<>> <=> elemOut[1] = TagOpening(elem) \o <<"/", ">">>
        /\ elem.children = <<>> <=> EndsWith(elemOut[1], <<"/", ">">>)
        /\ elem.children # <<>> =>
              /\ StartsWith(elemOut[1], TagOpening(elem) \o <<">">>)
              /\ EndsWith(elemOut[1], TagClosing(elem))
              /\ Len(elemOut[1]) >= Len(TagOpening(elem)) + 1 + Len(TagClosing(elem))

\* an element whose only child is the empty raw string has been rendered in
\* the paired form
C20_Witness ==
    /\ elemOut # None
    /\ elem.tag = "Div"
    /\ elem.attributes = <<>>
    /\ elem.children = <<ChildRaw(<<>>)>>
    /\ elemOut[1] = <<"<", "d", "i", "v", ">", "<", "/", "d", "i", "v", ">">>

(***************************************************************************)
(* The attribute list of an element only grows at its end.                 *)
(***************************************************************************)
\* C21: every step leaves the attribute list of the element as it was or
\* appends one given (name, value) pair to it, also when the name is already
\* in the list, so the list is the sequence of the pairs given, in call
\* order; the rendered tag lists the pairs in the order of the list.
C21_AttributesAppendOnly ==
    [][ /\ \/ elem'.attributes = elem.attributes
           \/ \E kv \in AttrPairsGiven :
                 elem'.attributes = Append(elem.attributes, kv)
        /\ elemOut' # None =>
              StartsWith(elemOut'[1], TagOpening(elem') \o
                             (IF elem'.children = <<>> THEN <<"/", ">">>
                                                        ELSE <<">">>)) ]_vars

\* the name id was given twice, with two values, and the element was
\* rendered with the two pairs in call order
C21_Witness ==
    /\ elemOut # None
    /\ elem.tag = "ParagraphText"
    /\ Len(elem.attributes) = 2
    /\ elem.attributes[1] = << <<"i", "d">>, <<"m">> >>
    /\ elem.attributes[2] = << <<"i", "d">>, <<"c">> >>
    /\ StartsWith(elemOut[1],
                  <<"<", "p", " ", "i", "d", "=", "\"", "m", "\"", " ", "i", "d",
                    "=", "\"", "c", "\"">>)

(***************************************************************************)
(* Nesting of the tags of a rendered tree.                                 *)
(***************************************************************************)
\* the positions of the character c in s, in increasing order
PositionsOf(c, s) == SelectSeq([i \in 1..Len(s) |-> i], LAMBDA i : s[i] = c)

\* the tags of s: what stands between each < and the > that follows it
TagsOf(s) ==
    LET opens == PositionsOf("<", s)
        closes == PositionsOf(">", s)
    IN  [k \in 1..Len(opens) |-> SubSeq(s, opens[k] + 1, closes[k] - 1)]

\* every < is followed by a > before the next <
TagsDelimited(s) ==
    LET opens == PositionsOf("<", s)
        closes == PositionsOf(">", s)
    IN  /\ Len(opens) = Len(closes)
        /\ \A k \in 1..Len(opens) :
              /\ opens[k] < closes[k]
              /\ k < Len(opens) => closes[k] < opens[k + 1]

\* the name of a tag: what precedes its first space or its closing slash
TagName(tag) ==
    LET body == IF tag # <<>> /\ tag[1] = "/" THEN Tail(tag) ELSE tag
        ends == {i \in 1..Len(body) : body[i] \in {" ", "/"}}
    IN  IF ends = {} THEN body
        ELSE SubSeq(body, 1, (CHOOSE i \in ends : \A j \in ends : i <= j) - 1)

\* the elements that have no closing tag
VoidNames == {<<"i", "m", "g">>, <<"b", "r">>, <<"h", "r">>}

IsClosing(tag) == tag # <<>> /\ tag[1] = "/"

IsSelfClosing(tag) == tag # <<>> /\ tag[Len(tag)] = "/"

RECURSIVE Balanced(_, _, _)
\* the tags from the k-th on close the names on the stack, last opened
\* first, and each other
Balanced(tags, k, stack) ==
    IF k > Len(tags) THEN stack = <<>>
    ELSE LET tag == tags[k]
         IN  IF IsClosing(tag)
             THEN /\ stack # <<>>
                  /\ Head(stack) = TagName(tag)
                  /\ Balanced(tags, k + 1, Tail(stack))
             ELSE IF IsSelfClosing(tag) \/ TagName(tag) \in VoidNames
             THEN Balanced(tags, k + 1, stack)
             ELSE Balanced(tags, k + 1, <<TagName(tag)>> \o stack)

WellNested(s) == TagsDelimited(s) /\ Balanced(TagsOf(s), 1, <<>>)

\* C22: the rendering of a tree built from containers, tables, elements and
\* leaf helpers, with text free of markup characters, is well nested: every
\* tag that is neither void nor self-closing is closed by a closing tag of
\* its name, last opened first closed.
C22_WellNested == contOut # None => WellNested(contOut[1])

\* a list that holds a container nesting lists and a div, and a table with
\* rows and a caption, has been rendered
C22_Witness ==
    /\ contOut # None
    /\ cont.tag = "UnorderedList"
    /\ Len(cont.elements) = 2
    /\ cont.elements[1] \in TreeContainers
    /\ cont.elements[2] = TreeTable
    /\ Len(TagsOf(contOut[1])) > 20

(***************************************************************************)
(* The closing syntax of void elements.                                    *)
(***************************************************************************)
\* the tags of the void elements
VoidTags == {"Image", "LineBreak", "HorizontalRule"}

\* the node ends its tag with />
SlashClosed(n) == EndsWith(ToHtml(n), <<"/", ">">>)

\* C23: in a rendered container an image added by add_image and a childless
\* element of a void tag end their tag in the same way: both with /> or
\* both with > alone.
C23_VoidSyntaxConsistent ==
    contOut # None =>
        \A i, j \in 1..Len(cont.elements) :
            ( /\ cont.elements[i].kind = "Image"
              /\ cont.elements[j].kind = "Element"
              /\ cont.elements[j].tag \in VoidTags
              /\ cont.elements[j].children = <<>> ) =>
                (SlashClosed(cont.elements[i]) <=> SlashClosed(cont.elements[j]))

(***************************************************************************)
(* The list items of nested containers.                                    *)
(***************************************************************************)
IsContainer(n) == n.kind = "Container"

RECURSIVE ContainersIn(_)
\* the containers of the tree n, n included
ContainersIn(n) ==
    IF IsContainer(n)
    THEN {n} \cup UNION {ContainersIn(n.elements[i]) : i \in 1..Len(n.elements)}
    ELSE {}

\* the opening tag of a container
ContainerOpen(c) ==
    <<"<">> \o ContainerTypeStr(c.tag) \o AttributesDisplay(c.attr) \o <<">">>

\* the closing tag of a container
ContainerClose(c) == <<"<", "/">> \o ContainerTypeStr(c.tag) \o <<">">>

\* the renderings given, each between <li> and </li> when wrapped, one after
\* the other
Joined(renderings, wrapped) ==
    Concat([i \in 1..Len(renderings) |->
               IF wrapped THEN LiOpen \o renderings[i] \o LiClose
               ELSE renderings[i]])

\* C24: in a rendered tree every container, at any depth, adds one <li> per
\* child when it is a list, whatever the kind of the child, and none when
\* it is not a list, whatever the containers around it: between its tags
\* stand the renderings of its children, each between <li> and </li> exactly
\* when the container itself is a list.
C24_WrapByParentOnly ==
    contOut # None =>
        \A c \in ContainersIn(cont) :
            LET whole == ToHtml(c)
                children == [i \in 1..Len(c.elements) |-> ToHtml(c.elements[i])]
            IN  /\ Contains(whole, contOut[1])
                /\ Count(LiOpen, whole) - SumCounts(LiOpen, children)
                       = (IF IsList(c) THEN Len(c.elements) ELSE 0)
                /\ whole = ContainerOpen(c) \o Joined(children, IsList(c))
                               \o ContainerClose(c)

\* a list holding a list whose first child is a div with a paragraph and
\* whose second child is a list, and a div holding a list, has been rendered
C24_Witness ==
    /\ contOut # None
    /\ cont.tag = "OrderedList"
    /\ Len(cont.elements) = 2
    /\ IsList(cont.elements[1])
    /\ ~ IsList(cont.elements[2]) /\ IsContainer(cont.elements[2])
    /\ Contains(<<"<", "o", "l", ">", "<", "l", "i", ">", "<", "u", "l", ">",
                  "<", "l", "i", ">", "<", "d", "i", "v", ">", "<", "p", ">">>,
                contOut[1])
    /\ Contains(<<"<", "l", "i", ">", "<", "d", "i", "v", ">", "<", "o", "l",
                  ">", "<", "l", "i", ">", "<", "i", "m", "g">>,
                contOut[1])

(***************************************************************************)
(* The framing of a page: doctype and opening <html> tag.                  *)
(***************************************************************************)
\* a step of custom_doctype, doctype_html5 or doctype_xhtml
DoctypeSetterStep == PageCustomDoctype \/ PageDoctypeHtml5 \/ PageDoctypeXhtml

\* a step of custom_html_tag or html_xml
HtmlTagSetterStep == PageCustomHtmlTag \/ PageHtmlXml

\* C25: custom_doctype, doctype_html5 and doctype_xhtml put their value in
\* the doctype, whatever it was, and leave the opening html tag as it was;
\* custom_html_tag and html_xml put their value in the opening html tag,
\* whatever it was, and leave the doctype as it was; none of them changes
\* head or body; doctype and html tag change in no step but a setter's or a
\* constructor's; and a rendered page starts with the doctype and the opening
\* html tag the page holds, which are those of the last setter of each kind.
C25_FramingSetters ==
    [][ /\ PageCustomDoctype => page'.doctype = CustomDoctype
        /\ PageDoctypeHtml5 => page'.doctype = HTML5
        /\ PageDoctypeXhtml => page'.doctype = XHTML_1_DOT_0
        /\ PageCustomHtmlTag => page'.html = CustomHtmlTag
        /\ PageHtmlXml => page'.html = HTML_XML
        /\ DoctypeSetterStep => page'.html = page.html
        /\ HtmlTagSetterStep => page'.doctype = page.doctype
        /\ DoctypeSetterStep \/ HtmlTagSetterStep =>
              /\ page'.head = page.head
              /\ page'.body = page.body
        /\ page'.doctype # page.doctype => DoctypeSetterStep \/ PageWithVersion
        /\ page'.html # page.html => HtmlTagSetterStep \/ PageWithVersion
        /\ pageOut' # None =>
              /\ StartsWith(pageOut'[1], page'.doctype \o page'.html)
              /\ StartsWith(SubSeq(pageOut'[1],
                                   Len(page'.doctype \o page'.html) + 1,
                                   Len(pageOut'[1])),
                            <<"<", "h", "e", "a", "d", ">">> \o page'.head) ]_vars

\* a rendered page with head and body content whose doctype and html tag
\* were both set by setters, the html tag being the XML one
C25_Witness ==
    /\ pageOut # None
    /\ page.doctype = CustomDoctype
    /\ page.html = HTML_XML
    /\ pageHeadLog # <<>>
    /\ pageBodyLog # <<>>
    /\ StartsWith(pageOut[1], CustomDoctype \o HTML_XML)

(***************************************************************************)
(* The regions of a table.                                                 *)
(***************************************************************************)
\* the regions whose element differs between the two states of a step
RegionsChanged == {r \in Regions : RegionOf(tab', r) # RegionOf(tab, r)}

\* the step leaves every region but r and the caption as they were
OnlyRegion(r) == RegionsChanged \subseteq {r} /\ tab'.caption = tab.caption

\* the step appends to the attribute list of region r and leaves its rows
AttributesGrow(r) ==
    /\ RegionOf(tab', r).children = RegionOf(tab, r).children
    /\ RegionOf(tab', r).tag = RegionOf(tab, r).tag
    /\ Len(RegionOf(tab', r).attributes) =
           Len(RegionOf(tab, r).attributes) + Len(tabAttrLast'[r][1])
    /\ SubSeq(RegionOf(tab', r).attributes, 1, Len(RegionOf(tab, r).attributes))
           = RegionOf(tab, r).attributes

\* the step appends one row to the rows of group r and leaves its attributes
RowsGrow(r) ==
    /\ RegionOf(tab', r).attributes = RegionOf(tab, r).attributes
    /\ RegionOf(tab', r).tag = RegionOf(tab, r).tag
    /\ Len(RegionOf(tab', r).children) = Len(RegionOf(tab, r).children) + 1
    /\ SubSeq(RegionOf(tab', r).children, 1, Len(RegionOf(tab, r).children))
           = RegionOf(tab, r).children

\* C26: a step that adds attributes to the table, thead, tbody or tfoot
\* appends to the attribute list of that region and changes nothing else; a
\* step that adds a row to the head, the body or the foot appends the row to
\* that group and changes nothing else: the other regions, the attributes of
\* the group and the caption are as they were.
C26_RegionsIndependent ==
    [][ /\ \A r \in Regions :
              TabAttributes(r) => OnlyRegion(r) /\ AttributesGrow(r)
        /\ TabAddHeaderRow \/ TabAddCustomHeaderRow =>
              OnlyRegion("thead") /\ RowsGrow("thead")
        /\ TabAddBodyRow \/ TabAddCustomBodyRow =>
              OnlyRegion("tbody") /\ RowsGrow("tbody")
        /\ TabAddFooterRow \/ TabAddCustomFooterRow =>
              OnlyRegion("tfoot") /\ RowsGrow("tfoot") ]_vars

\* a table with a caption whose thead holds attributes and a row while the
\* tbody holds a row and no attribute and the table and the tfoot are empty
C26_Witness ==
    /\ tab.caption # <<>>
    /\ tab.thead.attributes # <<>>
    /\ Len(tab.thead.children) = 1
    /\ tab.tbody.attributes = <<>>
    /\ Len(tab.tbody.children) = 1
    /\ tab.table.attributes = <<>>
    /\ tab.tfoot = HtmlElementNew("TableFooter")

(***************************************************************************)
(* The page that renders on insertion and the page that keeps its nodes.   *)
(***************************************************************************)
\* the doctype and the html tag are those of HtmlPage::new
DefaultFraming == page.doctype = HTML5 /\ page.html = HTML_PLAIN_TAG

\* C27: the head and body buffers of the HtmlPage of html_page/mod.rs are
\* the renderings, taken at insertion, of the nodes that the HtmlPage of
\* html_page.rs holds after the same additions, joined in order; so with the
\* framing of HtmlPage::new the rendering of the first page, and the string
\* to_html_string returned, equal the rendering of the second, which renders
\* its nodes only then.
C27_EagerEqualsNodeList ==
    /\ page.head =
           Concat([i \in 1..Len(nodePage.head) |->
                      HeadContentEnumToHtml(nodePage.head[i])])
    /\ page.body =
           Concat([i \in 1..Len(nodePage.body) |-> ToHtml(nodePage.body[i])])
    /\ DefaultFraming =>
           /\ HtmlPageToHtml(page) = NodeListPageToHtml(nodePage)
           /\ pageOut # None => pageOut[1] = NodeListPageToHtml(nodePage)

\* a rendered page with the default framing that was given two body nodes
\* with different renderings, or a head node with attributes and a body node
C27_Witness ==
    /\ pageOut # None
    /\ DefaultFraming
    /\ pageOut[1] = NodeListPageToHtml(nodePage)
    /\ \/ /\ Len(nodePage.body) = 2
          /\ ToHtml(nodePage.body[1]) # ToHtml(nodePage.body[2])
          /\ nodePage.body[1].kind = "Container"
       \/ /\ Len(nodePage.head) = 1
          /\ Len(nodePage.body) = 1
          /\ nodePage.head[1].kind = "HeadLink"
          /\ nodePage.head[1].attr # AttributesDefault

(***************************************************************************)
(* Head additions and body additions in either order.                      *)
(***************************************************************************)
\* renderings of a title and of a script literal
HeadRenderings ==
    {HeadContentToHtml(Title(TextX)), HeadContentToHtml(ScriptLiteral(TextY))}

\* renderings of a paragraph and of raw text
BodyRenderings == {ToHtml(Paragraph(TextX, AttributesDefault)), ToHtml(Raw(TextY))}

\* C28: the head of a page is the head additions joined in their order and
\* the body is the body additions joined in theirs, whatever the order in
\* which the two kinds of call were made; and from every page a head addition
\* followed by a body addition gives the same page, with the same rendering,
\* as the body addition followed by the head addition.
C28_HeadBodyCommute ==
    /\ page.head = Concat(pageHeadLog)
    /\ page.body = Concat(pageBodyLog)
    /\ \A h \in HeadRenderings : \A b \in BodyRenderings :
          LET headFirst == HtmlPageAddHtml(HtmlPageAddHtmlHead(page, h), b)
              bodyFirst == HtmlPageAddHtmlHead(HtmlPageAddHtml(page, b), h)
          IN  /\ headFirst = bodyFirst
              /\ HtmlPageToHtml(headFirst) = HtmlPageToHtml(bodyFirst)

\* the rendered page that a title and then a paragraph, or the paragraph and
\* then the title, give
C28_Witness ==
    /\ pageOut # None
    /\ Len(pageHeadLog) = 1
    /\ Len(pageBodyLog) = 1
    /\ \E h \in HeadRenderings : \E b \in BodyRenderings :
          /\ page = HtmlPageAddHtmlHead(HtmlPageAddHtml(HtmlPageDefault, b), h)
          /\ page = HtmlPageAddHtml(HtmlPageAddHtmlHead(HtmlPageDefault, h), b)
          /\ pageOut[1] = HtmlPageToHtml(page)

(***************************************************************************)
(* The caption of a table.                                                 *)
(***************************************************************************)
CaptionClose == <<"<", "/", "c", "a", "p", "t", "i", "o", "n", ">">>

\* the content of a caption call other than those of the table program
OtherCaption == ToHtml(Header(2, TextX, AttributesDefault))

\* the end of the rendering of a table with a caption of this content
CaptionTail(content) == CaptionOpen \o <<">">> \o content \o CaptionEnd

\* the contents of the caption calls hold no caption tag and not each other
CaptionContentsApart ==
    \A c \in Captions :
        /\ Count(CaptionOpen, CaptionTail(ToHtml(c))) = 1
        /\ Count(CaptionOpen, CaptionTail(OtherCaption)) = 1
        /\ ~ Contains(OtherCaption, ToHtml(c))
        /\ ~ Contains(ToHtml(c), OtherCaption)

\* C29: a caption call leaves the table with one caption, the content given,
\* whatever caption the table had: the table is the one the call gives after
\* an earlier call with other content, and its rendering is a part without
\* any <caption and without the content of either call, followed by one
\* caption element with the content of the call; a further call with the
\* other content renders the same part followed by one caption element with
\* that content, so exactly one <caption> element, the last one, is rendered.
C29_CaptionLastWins ==
    [][ TabAddCaption =>
          \E c \in {ToHtml(caption) : caption \in Captions} :
          \E rendering \in {TableToHtml(tab')} :
          \E before \in {SubSeq(rendering, 1,
                                Len(rendering) - Len(CaptionTail(c)))} :
              /\ CaptionContentsApart
              /\ tab' = TableAddCaption(TableAddCaption(tab, OtherCaption), c)
              /\ Len(tab'.caption) = 1
              /\ rendering = before \o CaptionTail(c)
              /\ Count(CaptionOpen, before) = 0
              /\ ~ Contains(c, before)
              /\ ~ Contains(OtherCaption, before)
              /\ Len(TableAddCaption(tab', OtherCaption).caption) = 1
              /\ TableToHtml(TableAddCaption(tab', OtherCaption))
                     = before \o CaptionTail(OtherCaption) ]_vars

\* a rendered table with a header row and a body row that was given a
\* caption: its rendering holds one caption element
C29_Witness ==
    /\ tabOut # None
    /\ tab.caption # <<>>
    /\ Len(tab.thead.children) = 1
    /\ Len(tab.tbody.children) = 1
    /\ \E c \in Captions :
          /\ Count(CaptionOpen, tabOut[1]) = 1
          /\ Contains(CaptionOpen \o <<">">> \o ToHtml(c) \o CaptionClose,
                      tabOut[1])

(***************************************************************************)
(* Heading levels.                                                         *)
(***************************************************************************)
\* the decimal digits of a u8
DecimalOf(n) ==
    IF n >= 100
    THEN <<Digits[(n \div 100) + 1], Digits[((n \div 10) % 10) + 1],
           Digits[(n % 10) + 1]>>
    ELSE IF n >= 10 THEN <<Digits[(n \div 10) + 1], Digits[(n % 10) + 1]>>
    ELSE <<Digits[n + 1]>>

\* <hN attrs>text</hN>
HeaderString(level, attrString, text) ==
    <<"<", "h">> \o DecimalOf(level) \o attrString \o <<">">> \o text
        \o <<"<", "/", "h">> \o DecimalOf(level) \o <<">">>

\* every u8 is accepted as a level by add_header, with_header and the header
\* with attributes, and renders with that number in both tags
EveryLevelRenders ==
    \A level \in 0..255 :
        /\ ToHtml(Header(level, TextX, AttributesDefault))
               = HeaderString(level, <<>>, TextX)
        /\ \A a \in AttributesFromIter(PairsId) :
               ToHtml(Header(level, TextY, a))
                   = HeaderString(level, Fragments(PairsId), TextY)
        /\ AddHeader(ContainerNew("Div"), level, TextX).elements[1].level = level
        /\ WithHeader(ContainerNew("Div"), level, TextX)
               = AddHeader(ContainerNew("Div"), level, TextX)
        /\ ToHtml(AddHeader(ContainerNew("Div"), level, TextX))
               = <<"<", "d", "i", "v", ">">>
                     \o HeaderString(level, <<>>, TextX)
                     \o <<"<", "/", "d", "i", "v", ">">>

\* C30: add_header and with_header, and the forms with attributes, accept
\* every level from 0 to 255, 0 and 7 to 255 included, and nothing is
\* rejected; the header renders <hN attrs>text</hN> with the decimal N of
\* the level in the opening and in the closing tag, alone and as a child of
\* a rendered container.
C30_HeaderLevels ==
    /\ EveryLevelRenders
    /\ \A i \in 1..Len(cont.elements) :
          cont.elements[i].kind = "Header" =>
              /\ cont.elements[i].level \in 0..255
              /\ contOut # None =>
                    Contains(HeaderString(cont.elements[i].level,
                                          IF cont.elements[i].attr = AttributesDefault
                                          THEN <<>> ELSE Fragments(PairsTitle),
                                          cont.elements[i].content),
                             contOut[1])

\* a rendered container that holds a header of level 255 with an attribute
\* and a header of level 1
C30_Witness ==
    /\ contOut # None
    /\ \E i \in 1..Len(cont.elements) :
          /\ cont.elements[i].kind = "Header"
          /\ cont.elements[i].level = 255
    /\ \E i \in 1..Len(cont.elements) :
          /\ cont.elements[i].kind = "Header"
          /\ cont.elements[i].level = 1
    /\ Contains(<<"<", "h", "2", "5", "5", " ">>, contOut[1])
    /\ Contains(<<"<", "/", "h", "2", "5", "5", ">">>, contOut[1])
    /\ Contains(<<"<", "h", "1", ">">>, contOut[1])

=============================================================================
